---------------------------- MODULE Spec2Model ----------------------------
(***************************************************************************)
(* A model of wavcheck (barndollarmusic/wavcheck): the frame-rate model    *)
(* and parser, the timecode arithmetic engine and the duration formatter   *)
(* of src/src/wavcheck/timecode.py, with the framerate prompt of           *)
(* src/src/wavcheck/prompt.py.                                             *)
(*                                                                         *)
(* Python `float` is IEEE-754 binary64.  Every float operation of the      *)
(* source is modelled with its rounding (round to nearest, ties to even):  *)
(* a float is a sign, a 53-bit significand held as five base-8192 limbs    *)
(* (most significant first, the first limb being the single top bit) and   *)
(* a binary exponent.  Exponents stay far from the subnormal and overflow  *)
(* ranges for every value the model reaches, so neither is modelled.       *)
(***************************************************************************)
EXTENDS Integers, Sequences, FiniteSets, TLC

\* ------------------------------------------------------------------------
\* Unbounded naturals as limb sequences (most significant limb first).
\* ------------------------------------------------------------------------

LimbBits == 13
Base == 2 ^ LimbBits
MantLimbs == 5

Zeros(n) == [i \in 1..n |-> 0]

RECURSIVE BigStrip(_)
BigStrip(X) ==
    IF X = <<>> THEN <<>>
    ELSE IF X[1] = 0 THEN BigStrip(Tail(X)) ELSE X

BigIsZero(X) == \A i \in 1..Len(X) : X[i] = 0

RECURSIVE BigFromInt(_)
BigFromInt(n) ==
    IF n = 0 THEN <<>> ELSE Append(BigFromInt(n \div Base), n % Base)

\* X * k for a small k (k * Base stays below 2^31): limbs i..1 still to do,
\* acc the limbs of the product below them.
RECURSIVE BigMulAcc(_, _, _, _, _)
BigMulAcc(X, k, i, carry, acc) ==
    IF i = 0 THEN BigFromInt(carry) \o acc
    ELSE BigMulAcc(X, k, i - 1, (X[i] * k + carry) \div Base,
                   <<(X[i] * k + carry) % Base>> \o acc)

BigMulSmall(X, k) == BigMulAcc(X, k, Len(X), 0, <<>>)

\* Quotient and remainder of X by a small d (d <= 2^18).
RECURSIVE BigDivRem(_, _, _, _, _)
BigDivRem(X, d, i, r, acc) ==
    IF i > Len(X) THEN [q |-> acc, r |-> r]
    ELSE BigDivRem(X, d, i + 1, (r * Base + X[i]) % d,
                   Append(acc, (r * Base + X[i]) \div d))

BigDivSmall(X, d) == BigDivRem(X, d, 1, 0, <<>>)

\* X + 1.
RECURSIVE BigInc(_)
BigInc(X) ==
    IF X = <<>> THEN <<1>>
    ELSE LET n == Len(X)
         IN  IF X[n] + 1 < Base
             THEN [X EXCEPT ![n] = @ + 1]
             ELSE Append(BigInc(SubSeq(X, 1, n - 1)), 0)

\* X + Y, for X and Y of one length.
RECURSIVE BigAddAcc(_, _, _, _, _)
BigAddAcc(X, Y, i, carry, acc) ==
    IF i = 0 THEN <<carry>> \o acc
    ELSE BigAddAcc(X, Y, i - 1, (X[i] + Y[i] + carry) \div Base,
                   <<(X[i] + Y[i] + carry) % Base>> \o acc)

\* X + Y.
BigAdd(X, Y) ==
    IF Len(X) >= Len(Y)
    THEN BigAddAcc(X, Zeros(Len(X) - Len(Y)) \o Y, Len(X), 0, <<>>)
    ELSE BigAddAcc(Zeros(Len(Y) - Len(X)) \o X, Y, Len(Y), 0, <<>>)

\* Lexicographic order of two limb sequences of one length.
RECURSIVE BigLess(_, _)
BigLess(X, Y) ==
    IF X = <<>> THEN FALSE
    ELSE IF X[1] # Y[1] THEN X[1] < Y[1]
    ELSE BigLess(Tail(X), Tail(Y))

BitLen(v) == CHOOSE t \in 1..LimbBits : 2 ^ (t - 1) <= v /\ v < 2 ^ t

\* ------------------------------------------------------------------------
\* binary64 values and their correctly rounded operations.
\* ------------------------------------------------------------------------

FZero == [neg |-> FALSE, m |-> Zeros(MantLimbs), e |-> 0]

FIsZero(x) == BigIsZero(x.m)

\* Rounding to binary64 (round to nearest, ties to even), in steps.
\* RoundCarry: the significand after the increment; 2^53 renormalises.
RoundCarry(neg, m1, e2) ==
    IF m1[1] = 2
    THEN [neg |-> neg, m |-> <<1>> \o Zeros(MantLimbs - 1), e |-> e2 + 1]
    ELSE [neg |-> neg, m |-> m1, e |-> e2]

\* Whether the limbs of Y below the significand round it up: the first of them
\* holds the rounding bit on top, the rest (and sticky) is below it.
RoundsUp(Y, sticky) ==
    /\ Y[MantLimbs + 1] >= Base \div 2
    /\ \/ Y[MantLimbs + 1] % (Base \div 2) # 0
       \/ \E i \in (MantLimbs + 2)..Len(Y) : Y[i] # 0
       \/ sticky
       \/ Y[MantLimbs] % 2 = 1

\* Y has a top limb of 1: its first MantLimbs limbs are the significand.
RoundAligned(neg, Y, e1, sticky) ==
    IF Len(Y) <= MantLimbs
    THEN [neg |-> neg, m |-> Y \o Zeros(MantLimbs - Len(Y)),
          e |-> e1 - LimbBits * (MantLimbs - Len(Y))]
    ELSE RoundCarry(neg,
                    IF RoundsUp(Y, sticky)
                    THEN BigInc(SubSeq(Y, 1, MantLimbs))
                    ELSE SubSeq(Y, 1, MantLimbs),
                    e1 + LimbBits * (Len(Y) - MantLimbs))

\* X has a top limb of t bits: shift it left until the top limb is 1.
RoundTop(neg, X, e0, sticky, t) ==
    IF t = 1 THEN RoundAligned(neg, X, e0, sticky)
    ELSE RoundAligned(neg, BigMulSmall(X, 2 ^ (LimbBits + 1 - t)),
                      e0 - (LimbBits + 1 - t), sticky)

RoundStripped(neg, X, e0, sticky) ==
    IF X = <<>> THEN [FZero EXCEPT !.neg = neg]
    ELSE RoundTop(neg, X, e0, sticky, BitLen(X[1]))

\* The binary64 nearest to (-1)^neg * (X + s) * 2^e0, where X is a natural and
\* 0 < s < 1 when sticky (the discarded part of an inexact quotient), s = 0
\* otherwise.
RoundBig(neg, X, e0, sticky) == RoundStripped(neg, BigStrip(X), e0, sticky)

\* float(a) / b for naturals a, b (b > 0): both convert exactly, the quotient
\* is rounded once.
RoundQuotient(neg, qr, e0) == RoundBig(neg, qr.q, e0, qr.r # 0)

FDivInt(a, b) ==
    RoundQuotient(FALSE, BigDivSmall(BigFromInt(a) \o Zeros(6), b), 0 - 6 * LimbBits)

\* float(n) for a natural n.
FFromInt(n) == RoundBig(FALSE, BigFromInt(n), 0, FALSE)

\* x * k for a float x and a natural k.
FMulInt(x, k) == RoundBig(x.neg, BigMulSmall(x.m, k), x.e, FALSE)

\* x / d for a float x and a natural d > 0.
FDivSmall(x, d) ==
    RoundQuotient(x.neg, BigDivSmall(x.m \o Zeros(2), d), x.e - 2 * LimbBits)

\* The value of a limb sequence (below 2^31).
RECURSIVE BigVal(_)
BigVal(S) ==
    IF S = <<>> THEN 0
    ELSE BigVal(SubSeq(S, 1, Len(S) - 1)) * Base + S[Len(S)]

\* floor(X / 2^sh) for sh >= 0, when it lies below 2^31.
BigShiftRight(X, sh) ==
    LET drop == sh \div LimbBits
        r    == sh % LimbBits
    IN  IF drop >= Len(X) THEN 0
        ELSE LET keep == SubSeq(X, 1, Len(X) - drop)
                 hi   == SubSeq(keep, 1, Len(keep) - 1)
             IN  BigVal(hi) * 2 ^ (LimbBits - r) + keep[Len(keep)] \div 2 ^ r

\* The natural floor(|x| * 2^k) for |x| * 2^k < 2^31 (k = 0: math.floor of x >= 0).
FFloorScaled(x, k) ==
    IF FIsZero(x) THEN 0 ELSE BigShiftRight(x.m, 0 - (x.e + k))

FFloor(x) == FFloorScaled(x, 0)

\* Whether |x| is a whole number.
FIsWhole(x) ==
    LET sh == 0 - x.e
    IN  \/ FIsZero(x)
        \/ sh <= 0
        \/ /\ sh < LimbBits * MantLimbs
           /\ LET drop == sh \div LimbBits
                  r    == sh % LimbBits
              IN  /\ \A i \in (MantLimbs - drop + 1)..MantLimbs : x.m[i] = 0
                  /\ x.m[MantLimbs - drop] % 2 ^ r = 0

\* math.ceil(x) for x >= 0.
FCeil(x) == IF FIsWhole(x) THEN FFloor(x) ELSE FFloor(x) + 1

\* |x| < |y| for normalised floats.
FMagLess(x, y) ==
    IF FIsZero(y) THEN FALSE
    ELSE IF FIsZero(x) THEN TRUE
    ELSE IF x.e # y.e THEN x.e < y.e
    ELSE BigLess(x.m, y.m)

\* x < y.
FLess(x, y) ==
    IF FIsZero(x) /\ FIsZero(y) THEN FALSE
    ELSE IF x.neg /\ ~y.neg THEN TRUE
    ELSE IF ~x.neg /\ y.neg THEN FALSE
    ELSE IF x.neg THEN FMagLess(y, x)
    ELSE FMagLess(x, y)

\* hi + lo for floats hi, lo > 0 with hi.e >= lo.e.
FAddOrdered(hi, lo) ==
    IF hi.e - lo.e > LimbBits * (MantLimbs + 1)
    THEN \* lo lies wholly below the rounding bit of hi
         RoundBig(FALSE, hi.m \o Zeros(2), hi.e - 2 * LimbBits, TRUE)
    ELSE RoundBig(FALSE,
                  BigAdd(BigMulSmall(hi.m \o Zeros((hi.e - lo.e) \div LimbBits),
                                     2 ^ ((hi.e - lo.e) % LimbBits)),
                         lo.m),
                  lo.e, FALSE)

\* x + y for floats x, y >= 0.
FAdd(x, y) ==
    IF FIsZero(x) THEN y
    ELSE IF FIsZero(y) THEN x
    ELSE IF x.e >= y.e THEN FAddOrdered(x, y) ELSE FAddOrdered(y, x)

\* ------------------------------------------------------------------------
\* timecode.py: frame rates.
\* ------------------------------------------------------------------------

_MINS_PER_HR == 60
_SECS_PER_MIN == 60

FPS_23_976 == "23.976"
FPS_24_000 == "24.000"
FPS_25_000 == "25.000"
FPS_29_970 == "29.970"
FPS_30_000 == "30.000"
FPS_47_952 == "47.952"
FPS_48_000 == "48.000"
FPS_50_000 == "50.000"
FPS_59_940 == "59.940"
FPS_60_000 == "60.000"

FramesPerSec ==
    {FPS_23_976, FPS_24_000, FPS_25_000, FPS_29_970, FPS_30_000,
     FPS_47_952, FPS_48_000, FPS_50_000, FPS_59_940, FPS_60_000}

_FpsConfig(frames, per_wall_secs) ==
    [frames |-> frames, per_wall_secs |-> per_wall_secs]

_FRAME_RATES ==
    [f \in FramesPerSec |->
        CASE f = FPS_23_976 -> _FpsConfig(24000, 1001)
          [] f = FPS_24_000 -> _FpsConfig(24, 1)
          [] f = FPS_25_000 -> _FpsConfig(25, 1)
          [] f = FPS_29_970 -> _FpsConfig(30000, 1001)
          [] f = FPS_30_000 -> _FpsConfig(30, 1)
          [] f = FPS_47_952 -> _FpsConfig(48000, 1001)
          [] f = FPS_48_000 -> _FpsConfig(48, 1)
          [] f = FPS_50_000 -> _FpsConfig(50, 1)
          [] f = FPS_59_940 -> _FpsConfig(60000, 1001)
          [] f = FPS_60_000 -> _FpsConfig(60, 1)]

_DROP_FRAMES_PER_10MINS ==
    [f \in {FPS_29_970, FPS_59_940} |-> IF f = FPS_29_970 THEN 18 ELSE 36]

NON_DROP == "non-drop"
DROP == "drop"
DropType == {NON_DROP, DROP}

\* What a call gives back: a value, None, or a raised exception.
None == [kind |-> "None"]
Exception(msg) == [kind |-> "Exception", msg |-> msg]
IsException(v) == v.kind = "Exception"

\* A variant of the constructor that accepts every combination.
FrameRate_any_combination(fps, drop_type) ==
    [kind |-> "FrameRate", fps |-> fps, drop_type |-> drop_type]

\* FrameRate.__init__
FrameRate(fps, drop_type) ==
    IF drop_type = DROP /\ fps \notin DOMAIN _DROP_FRAMES_PER_10MINS
    THEN Exception("not a valid drop frame standard")
    ELSE [kind |-> "FrameRate", fps |-> fps, drop_type |-> drop_type]

IsFrameRate(v) == v.kind = "FrameRate"

\* FrameRate.int_fps
int_fps(fr) ==
    LET rate_info == _FRAME_RATES[fr.fps]
    IN  FCeil(FDivInt(rate_info.frames, rate_info.per_wall_secs))

\* FrameRate.drop_frames_per_10mins
drop_frames_per_10mins(fr) ==
    IF fr.drop_type = NON_DROP THEN 0 ELSE _DROP_FRAMES_PER_10MINS[fr.fps]

\* ------------------------------------------------------------------------
\* timecode.py: timecode arithmetic.
\* ------------------------------------------------------------------------

Timecode(hh, mm, ss, ff) ==
    [kind |-> "Timecode", hh |-> hh, mm |-> mm, ss |-> ss, ff |-> ff]

\* A variant that compares hours, minutes and seconds only.
TimecodeEq_to_the_second(a, b) ==
    /\ b.kind = "Timecode"
    /\ a.hh = b.hh
    /\ a.mm = b.mm
    /\ a.ss = b.ss

\* Timecode.__eq__
TimecodeEq(a, b) ==
    /\ b.kind = "Timecode"
    /\ a.hh = b.hh
    /\ a.mm = b.mm
    /\ a.ss = b.ss
    /\ a.ff = b.ff

\* math.floor(float(a) / b) for naturals a, b.
FloorDiv(a, b) == FFloor(FDivInt(a, b))

_frames_per_dropped_block(fr) == drop_frames_per_10mins(fr) \div 9

\* A variant that forgets the frames dropped through the start of HH.
_adjust_for_dropped_within_hour(frame_idx, tc, fr) ==
    IF drop_frames_per_10mins(fr) > 0
    THEN frame_idx
           - FloorDiv(tc.mm, 10) * drop_frames_per_10mins(fr)
           - (tc.mm % 10) * _frames_per_dropped_block(fr)
    ELSE frame_idx

\* _tc_to_frame_idx, from the frame index that ignores dropped frames on.
_adjust_for_dropped(frame_idx, tc, fr) ==
    IF drop_frames_per_10mins(fr) > 0
    THEN frame_idx
           - tc.hh * (6 * drop_frames_per_10mins(fr))
           - FloorDiv(tc.mm, 10) * drop_frames_per_10mins(fr)
           - (tc.mm % 10) * _frames_per_dropped_block(fr)
    ELSE frame_idx

\* A variant that stops after the calculation ignoring dropped frames.
_tc_to_frame_idx_ignoring_dropped(tc, fr) ==
    (int_fps(fr) * ((_SECS_PER_MIN * ((_MINS_PER_HR * tc.hh) + tc.mm)) + tc.ss))
      + tc.ff

_tc_to_frame_idx(tc, fr) ==
    _adjust_for_dropped(
        (int_fps(fr) * ((_SECS_PER_MIN * ((_MINS_PER_HR * tc.hh) + tc.mm)) + tc.ss))
          + tc.ff,
        tc, fr)

_frame_idx_to_wall_secs(frame_idx, fr) ==
    LET rate_info == _FRAME_RATES[fr.fps]
    IN  FDivInt(frame_idx * rate_info.per_wall_secs, rate_info.frames)

tc_to_wall_secs(tc, fr) ==
    _frame_idx_to_wall_secs(_tc_to_frame_idx(tc, fr), fr)

wall_secs_to_fractional_frame_idx(wall_secs, fr) ==
    LET rate_info == _FRAME_RATES[fr.fps]
    IN  FDivSmall(FMulInt(wall_secs, rate_info.frames), rate_info.per_wall_secs)

\* math.floor(x) for any float x whose floor lies within 32 bits.
MathFloor(x) ==
    IF x.neg /\ ~FIsZero(x) THEN 0 - FCeil(x) ELSE FFloor(x)

\* A variant that counts the complete drop minutes only, not the current one.
_frames_dropped_in_complete_mins(frame_idx, frames_per_non_drop_min, frames_per_dropped_block, dropped_per_10mins, num_complete_10min_blocks) ==
    LET frames_per_drop_min == frames_per_non_drop_min - frames_per_dropped_block
        frames_per_10mins   == 10 * frames_per_non_drop_min - dropped_per_10mins
        frames_remaining    ==
            frame_idx - frames_per_10mins * num_complete_10min_blocks
        num_dropped_frames  == num_complete_10min_blocks * dropped_per_10mins
    IN  IF frames_remaining >= frames_per_non_drop_min
        THEN num_dropped_frames
               + FloorDiv(frames_remaining - frames_per_non_drop_min,
                          frames_per_drop_min) * frames_per_dropped_block
        ELSE num_dropped_frames

\* _frames_dropped_before_frame_idx, from the count of complete 10 minute
\* blocks on.
_frames_dropped_in_block(frame_idx, frames_per_non_drop_min, frames_per_dropped_block, dropped_per_10mins, num_complete_10min_blocks) ==
    LET frames_per_drop_min == frames_per_non_drop_min - frames_per_dropped_block
        frames_per_10mins   == 10 * frames_per_non_drop_min - dropped_per_10mins
        frames_remaining    ==
            frame_idx - frames_per_10mins * num_complete_10min_blocks
        num_dropped_frames  == num_complete_10min_blocks * dropped_per_10mins
    IN  IF frames_remaining >= frames_per_non_drop_min
        THEN num_dropped_frames
               + (FloorDiv(frames_remaining - frames_per_non_drop_min,
                           frames_per_drop_min) + 1) * frames_per_dropped_block
        ELSE num_dropped_frames

_frames_dropped_by_block(frame_idx, frames_per_non_drop_min, frames_per_dropped_block, dropped_per_10mins) ==
    _frames_dropped_in_block(
        frame_idx, frames_per_non_drop_min, frames_per_dropped_block,
        dropped_per_10mins,
        FloorDiv(frame_idx, 10 * frames_per_non_drop_min - dropped_per_10mins))

_frames_dropped_before_frame_idx(frame_idx, fr) ==
    IF fr.drop_type = NON_DROP THEN 0
    ELSE _frames_dropped_by_block(frame_idx, int_fps(fr) * _SECS_PER_MIN,
                                  _frames_per_dropped_block(fr),
                                  drop_frames_per_10mins(fr))

\* _frame_idx_to_tc, field by field: each step takes the whole units out of the
\* frames that remain.
_tc_with_ss(hh, mm, ss, frames_remaining, fps) ==
    Timecode(hh, mm, ss, frames_remaining - ss * fps)

_tc_with_mm(hh, mm, frames_remaining, fps) ==
    _tc_with_ss(hh, mm, FloorDiv(frames_remaining, fps), frames_remaining, fps)

_tc_with_hh(hh, frames_remaining, fps) ==
    _tc_with_mm(hh, FloorDiv(frames_remaining, fps * _SECS_PER_MIN),
                frames_remaining
                  - FloorDiv(frames_remaining, fps * _SECS_PER_MIN)
                      * (fps * _SECS_PER_MIN),
                fps)

_tc_of_frames(frames_remaining, fps) ==
    _tc_with_hh(FloorDiv(frames_remaining, fps * _SECS_PER_MIN * _MINS_PER_HR),
                frames_remaining
                  - FloorDiv(frames_remaining, fps * _SECS_PER_MIN * _MINS_PER_HR)
                      * (fps * _SECS_PER_MIN * _MINS_PER_HR),
                fps)

_frame_idx_to_tc(frame_idx, fr) ==
    IF frame_idx < 0
    THEN Exception("Negative frame indexes are not supported")
    ELSE _tc_of_frames(frame_idx + _frames_dropped_before_frame_idx(frame_idx, fr),
                       int_fps(fr))

wall_secs_to_tc_left(wall_secs, fr) ==
    _frame_idx_to_tc(MathFloor(wall_secs_to_fractional_frame_idx(wall_secs, fr)), fr)

\* ------------------------------------------------------------------------
\* _frame_idx_to_tc and _tc_to_frame_idx on Python ints of any size: an int
\* is a sign and the limbs of its magnitude, without leading zero limbs.

PyInt(neg, mag) == [neg |-> neg /\ BigStrip(mag) # <<>>, mag |-> BigStrip(mag)]

PyFromInt(k) == IF k < 0 THEN PyInt(TRUE, BigFromInt(0 - k)) ELSE PyInt(FALSE, BigFromInt(k))

\* The int written in decimal, five digits to a group.
RECURSIVE PyFromGroups(_)
PyFromGroups(groups) ==
    IF groups = <<>> THEN PyInt(FALSE, <<>>)
    ELSE PyInt(FALSE,
               BigAdd(BigMulSmall(PyFromGroups(SubSeq(groups, 1, Len(groups) - 1)).mag,
                                  100000),
                      BigFromInt(groups[Len(groups)])))

\* The value of an int below 2^31 in magnitude.
PyVal(a) == IF a.neg THEN 0 - BigVal(a.mag) ELSE BigVal(a.mag)

BigPad(X, n) == Zeros(n - Len(X)) \o X

\* X < Y.
BigLt(X, Y) ==
    IF Len(X) >= Len(Y) THEN BigLess(X, BigPad(Y, Len(X)))
    ELSE BigLess(BigPad(X, Len(Y)), Y)

\* X - Y for X >= Y of one length: limbs i..1 still to do.
RECURSIVE BigSubAcc(_, _, _, _, _)
BigSubAcc(X, Y, i, borrow, acc) ==
    IF i = 0 THEN acc
    ELSE BigSubAcc(X, Y, i - 1,
                   IF X[i] - Y[i] - borrow < 0 THEN 1 ELSE 0,
                   <<(X[i] - Y[i] - borrow + Base) % Base>> \o acc)

\* X - Y for X >= Y.
BigSub(X, Y) == BigSubAcc(X, BigPad(Y, Len(X)), Len(X), 0, <<>>)

\* a + b
PyAdd(a, b) ==
    IF a.neg = b.neg THEN PyInt(a.neg, BigAdd(a.mag, b.mag))
    ELSE IF BigLt(a.mag, b.mag) THEN PyInt(b.neg, BigSub(b.mag, a.mag))
    ELSE PyInt(a.neg, BigSub(a.mag, b.mag))

\* a - b
PySub(a, b) == PyAdd(a, PyInt(~b.neg, b.mag))

\* a * k for a natural k below 2^18.
PyMul(a, k) == PyInt(a.neg, BigMulSmall(a.mag, k))

\* a < b
PyLess(a, b) ==
    IF a.neg # b.neg THEN a.neg
    ELSE IF a.neg THEN BigLt(b.mag, a.mag)
    ELSE BigLt(a.mag, b.mag)

\* float(a)
PyFloat(a) == RoundBig(a.neg, a.mag, 0, FALSE)

\* The limbs of floor(|x|).
BigFloor(x) ==
    IF FIsZero(x) THEN <<>>
    ELSE IF x.e >= 0
    THEN BigMulSmall(x.m \o Zeros(x.e \div LimbBits), 2 ^ (x.e % LimbBits))
    ELSE IF (0 - x.e) \div LimbBits >= MantLimbs THEN <<>>
    ELSE BigDivSmall(SubSeq(x.m, 1, MantLimbs - ((0 - x.e) \div LimbBits)),
                     2 ^ ((0 - x.e) % LimbBits)).q

\* math.floor(x)
PyFloor(x) ==
    IF ~x.neg THEN PyInt(FALSE, BigFloor(x))
    ELSE IF FIsWhole(x) THEN PyInt(TRUE, BigFloor(x))
    ELSE PyInt(TRUE, BigInc(BigStrip(BigFloor(x))))

\* math.floor(float(a) / d) for a natural d, 0 < d < 2^18.
PyFloorDiv(a, d) == PyFloor(FDivSmall(PyFloat(a), d))

\* a % d for an int a below 2^31 in magnitude.
PyMod(a, d) == PyFromInt(PyVal(a) % d)

_frames_dropped_in_block_big(frame_idx, frames_per_non_drop_min, frames_per_dropped_block, dropped_per_10mins, num_complete_10min_blocks) ==
    LET frames_per_drop_min == frames_per_non_drop_min - frames_per_dropped_block
        frames_per_10mins   == 10 * frames_per_non_drop_min - dropped_per_10mins
        frames_remaining    ==
            PySub(frame_idx, PyMul(num_complete_10min_blocks, frames_per_10mins))
        num_dropped_frames  == PyMul(num_complete_10min_blocks, dropped_per_10mins)
    IN  IF ~PyLess(frames_remaining, PyFromInt(frames_per_non_drop_min))
        THEN PyAdd(num_dropped_frames,
                   PyMul(PyAdd(PyFloorDiv(PySub(frames_remaining,
                                                PyFromInt(frames_per_non_drop_min)),
                                          frames_per_drop_min),
                               PyFromInt(1)),
                         frames_per_dropped_block))
        ELSE num_dropped_frames

_frames_dropped_before_frame_idx_big(frame_idx, fr) ==
    IF fr.drop_type = NON_DROP THEN PyFromInt(0)
    ELSE _frames_dropped_in_block_big(
             frame_idx, int_fps(fr) * _SECS_PER_MIN, _frames_per_dropped_block(fr),
             drop_frames_per_10mins(fr),
             PyFloorDiv(frame_idx,
                        10 * int_fps(fr) * _SECS_PER_MIN - drop_frames_per_10mins(fr)))

_tc_with_mm_big(hh, mm, frames_remaining, fps) ==
    Timecode(hh, mm, PyFloorDiv(frames_remaining, fps),
             PySub(frames_remaining, PyMul(PyFloorDiv(frames_remaining, fps), fps)))

_tc_with_hh_big(hh, frames_remaining, fps) ==
    _tc_with_mm_big(hh, PyFloorDiv(frames_remaining, fps * _SECS_PER_MIN),
                    PySub(frames_remaining,
                          PyMul(PyFloorDiv(frames_remaining, fps * _SECS_PER_MIN),
                                fps * _SECS_PER_MIN)),
                    fps)

_tc_of_frames_big(frames_remaining, fps) ==
    _tc_with_hh_big(PyFloorDiv(frames_remaining, fps * _SECS_PER_MIN * _MINS_PER_HR),
                    PySub(frames_remaining,
                          PyMul(PyFloorDiv(frames_remaining,
                                           fps * _SECS_PER_MIN * _MINS_PER_HR),
                                fps * _SECS_PER_MIN * _MINS_PER_HR)),
                    fps)

\* _frame_idx_to_tc; the fields of the Timecode are ints of any size.
_frame_idx_to_tc_big(frame_idx, fr) ==
    IF frame_idx.neg
    THEN Exception("Negative frame indexes are not supported")
    ELSE _tc_of_frames_big(
             PyAdd(frame_idx, _frames_dropped_before_frame_idx_big(frame_idx, fr)),
             int_fps(fr))

_adjust_for_dropped_big(frame_idx, tc, fr) ==
    IF drop_frames_per_10mins(fr) > 0
    THEN PySub(PySub(PySub(frame_idx, PyMul(tc.hh, 6 * drop_frames_per_10mins(fr))),
                     PyMul(PyFloorDiv(tc.mm, 10), drop_frames_per_10mins(fr))),
               PyMul(PyMod(tc.mm, 10), _frames_per_dropped_block(fr)))
    ELSE frame_idx

\* _tc_to_frame_idx
_tc_to_frame_idx_big(tc, fr) ==
    _adjust_for_dropped_big(
        PyAdd(PyMul(PyAdd(PyMul(PyAdd(PyMul(tc.hh, _MINS_PER_HR), tc.mm), _SECS_PER_MIN),
                          tc.ss),
                    int_fps(fr)),
              tc.ff),
        tc, fr)

\* ------------------------------------------------------------------------
\* timecode.py: parse_framerate_within.  A text is a sequence of one-character
\* strings.  A line printed to stdout is a record; colour escape sequences are
\* left out of the texts.
\* ------------------------------------------------------------------------

SEARCH_WITHIN == "SEARCH_WITHIN"
REQUIRE_FULL_MATCH == "REQUIRE_FULL_MATCH"
FrameRateMatchLevel == {SEARCH_WITHIN, REQUIRE_FULL_MATCH}

DigitChars == <<"0", "1", "2", "3", "4", "5", "6", "7", "8", "9">>
UpperChars ==
    <<"A", "B", "C", "D", "E", "F", "G", "H", "I", "J", "K", "L", "M",
      "N", "O", "P", "Q", "R", "S", "T", "U", "V", "W", "X", "Y", "Z">>
LowerChars ==
    <<"a", "b", "c", "d", "e", "f", "g", "h", "i", "j", "k", "l", "m",
      "n", "o", "p", "q", "r", "s", "t", "u", "v", "w", "x", "y", "z">>

\* \d and \s of the re module, over the characters the inputs are made of.
IsDigit(c) == \E d \in DOMAIN DigitChars : DigitChars[d] = c
DigitVal(c) == (CHOOSE d \in DOMAIN DigitChars : DigitChars[d] = c) - 1
IsSpace(c) == c \in {" ", "\t", "\n", "\r", "\f"}

\* re.IGNORECASE compares letters through their lower case.
ToLower(c) ==
    IF \E k \in DOMAIN UpperChars : UpperChars[k] = c
    THEN LowerChars[CHOOSE k \in DOMAIN UpperChars : UpperChars[k] = c]
    ELSE c

ToUpper(c) ==
    IF \E k \in DOMAIN LowerChars : LowerChars[k] = c
    THEN UpperChars[CHOOSE k \in DOMAIN LowerChars : LowerChars[k] = c]
    ELSE c

\* Does the literal lit (in lower case) match s at position i, ignoring case?
LitAt(s, i, lit) ==
    /\ i + Len(lit) - 1 <= Len(s)
    /\ \A k \in 1..Len(lit) : ToLower(s[i + k - 1]) = lit[k]

\* The position after an optional \d at p, and after a greedy \s* or [-_\s]*.
OptDigit(s, p) == IF p <= Len(s) /\ IsDigit(s[p]) THEN p + 1 ELSE p

RECURSIVE SkipSpaces(_, _)
SkipSpaces(s, p) ==
    IF p <= Len(s) /\ IsSpace(s[p]) THEN SkipSpaces(s, p + 1) ELSE p

RECURSIVE SkipSeparators(_, _)
SkipSeparators(s, p) ==
    IF p <= Len(s) /\ (s[p] \in {"-", "_"} \/ IsSpace(s[p]))
    THEN SkipSeparators(s, p + 1)
    ELSE p

\* _FPS_PATTERN at i, where two digits stand: the position after the token.
_FPS_PATTERN_end(s, i) ==
    OptDigit(s, OptDigit(s, OptDigit(s,
        IF i + 2 <= Len(s) /\ s[i + 2] = "." THEN i + 3 ELSE i + 2)))

\* _DROP_PATTERN and _NON_DROP_PATTERN at p: the position after the match, or
\* 0 when the pattern does not match there.
_DROP_PATTERN_end(s, p) ==
    IF LitAt(s, p, <<"d", "r", "o", "p">>) THEN p + 4
    ELSE IF LitAt(s, p, <<"d", "f">>) THEN p + 2
    ELSE IF LitAt(s, p, <<"d">>) THEN p + 1
    ELSE 0

_NON_DROP_PATTERN_end(s, p) ==
    IF /\ LitAt(s, p, <<"n", "o", "n">>)
       /\ LitAt(s, SkipSeparators(s, p + 3), <<"d", "r", "o", "p">>)
    THEN SkipSeparators(s, p + 3) + 4
    ELSE IF LitAt(s, p, <<"n", "d", "f">>) THEN p + 3
    ELSE IF LitAt(s, p, <<"n", "d">>) THEN p + 2
    ELSE 0

\* Group 2 of _FRAMERATE_PATTERN at p: the drop pattern is tried first.
_qualifier_end(s, p) ==
    IF _DROP_PATTERN_end(s, p) # 0 THEN _DROP_PATTERN_end(s, p)
    ELSE _NON_DROP_PATTERN_end(s, p)

\* The match object of _FRAMERATE_PATTERN at i: groups 1 and 2 (group 2 empty
\* when it took no part) and the position after the match.
_match_groups(s, i, fps_end, qual_start, qual_end) ==
    [fps_str       |-> SubSeq(s, i, fps_end - 1),
     drop_type_str |-> IF qual_end = 0 THEN <<>>
                       ELSE SubSeq(s, qual_start, qual_end - 1),
     end           |-> IF qual_end = 0 THEN qual_start ELSE qual_end]

_match_from_qualifier(s, i, fps_end, qual_start) ==
    _match_groups(s, i, fps_end, qual_start, _qualifier_end(s, qual_start))

_match_from_fps(s, i, fps_end) ==
    _match_from_qualifier(s, i, fps_end, SkipSpaces(s, fps_end))

TwoDigitsAt(s, i) ==
    i + 1 <= Len(s) /\ IsDigit(s[i]) /\ IsDigit(s[i + 1])

_FRAMERATE_PATTERN_at(s, i) ==
    IF TwoDigitsAt(s, i) THEN _match_from_fps(s, i, _FPS_PATTERN_end(s, i))
    ELSE None

\* re.match: at the start of s only.  re.search: at the leftmost position
\* where the pattern matches.
re_match(s) == _FRAMERATE_PATTERN_at(s, 1)

re_search(s) ==
    IF \E i \in 1..Len(s) : TwoDigitsAt(s, i)
    THEN _FRAMERATE_PATTERN_at(
             s, CHOOSE i \in 1..Len(s) :
                    TwoDigitsAt(s, i) /\ \A j \in 1..(i - 1) : ~TwoDigitsAt(s, j))
    ELSE None

\* str.strip()
RECURSIVE strip(_)
strip(s) ==
    IF s # <<>> /\ IsSpace(s[1]) THEN strip(Tail(s))
    ELSE IF s # <<>> /\ IsSpace(s[Len(s)]) THEN strip(SubSeq(s, 1, Len(s) - 1))
    ELSE s

\* float(fps_str) in thousandths: fps_str is two to five digits, or two digits,
\* a point and up to three digits, so the thousandths are a whole number and
\* two such texts give equal floats exactly when their thousandths are equal.
RECURSIVE DigitsVal(_, _)
DigitsVal(digits, acc) ==
    IF digits = <<>> THEN acc
    ELSE DigitsVal(Tail(digits), 10 * acc + DigitVal(digits[1]))

RECURSIVE FractionThousandths(_, _)
FractionThousandths(digits, scale) ==
    IF digits = <<>> THEN 0
    ELSE DigitVal(digits[1]) * scale + FractionThousandths(Tail(digits), scale \div 10)

fps_num(fps_str) ==
    IF Len(fps_str) >= 3 /\ fps_str[3] = "."
    THEN 1000 * DigitsVal(SubSeq(fps_str, 1, 2), 0)
           + FractionThousandths(SubSeq(fps_str, 4, Len(fps_str)), 100)
    ELSE 1000 * DigitsVal(fps_str, 0)

\* The if / elif chain of parse_framerate_within: <<fps>>, or <<>> where the
\* code raises.
_fps_of(fps_str) ==
    IF fps_str \in {<<"2", "3", ".", "9", "7", "6">>, <<"2", "3", ".", "9", "8">>}
    THEN <<FPS_23_976>>
    ELSE IF fps_num(fps_str) = 24000 THEN <<FPS_24_000>>
    ELSE IF fps_num(fps_str) = 25000 THEN <<FPS_25_000>>
    ELSE IF fps_str \in {<<"2", "9", ".", "9", "7", "0">>, <<"2", "9", ".", "9", "7">>}
    THEN <<FPS_29_970>>
    ELSE IF fps_num(fps_str) = 30000 THEN <<FPS_30_000>>
    ELSE IF fps_str \in {<<"4", "7", ".", "9", "5", "2">>, <<"4", "7", ".", "9", "5">>}
    THEN <<FPS_47_952>>
    ELSE IF fps_num(fps_str) = 48000 THEN <<FPS_48_000>>
    ELSE IF fps_num(fps_str) = 50000 THEN <<FPS_50_000>>
    ELSE IF fps_str \in {<<"5", "9", ".", "9", "4", "0">>, <<"5", "9", ".", "9", "4">>}
    THEN <<FPS_59_940>>
    ELSE IF fps_num(fps_str) = 60000 THEN <<FPS_60_000>>
    ELSE <<>>

\* Lines on stdout.
Line(text) == [kind |-> "line", text |-> text]
BlankLine == Line("")
AmbiguityWarning(fps_str, fps) ==
    [kind |-> "warning", text |-> "potentially ambiguous",
     fps_str |-> fps_str, fps |-> fps]

\* A variant that warns of nothing.
_no_ambiguity_warning(fps_str, fps) == <<>>

\* What parse_framerate_within prints for fps_str read as fps.
_ambiguity_warning(fps_str, fps) ==
    IF /\ (IF Len(fps_str) - 3 > 0 THEN Len(fps_str) - 3 ELSE 0) = 0
       /\ fps \in {FPS_24_000, FPS_30_000, FPS_48_000, FPS_60_000}
    THEN <<BlankLine, AmbiguityWarning(fps_str, fps), BlankLine>>
    ELSE <<>>

\* A variant that takes every qualifier for a non-drop one.
_drop_type_always_non_drop(drop_type_str) == NON_DROP

_drop_type_of(drop_type_str) ==
    IF _DROP_PATTERN_end(drop_type_str, 1) # 0 THEN DROP ELSE NON_DROP

\* parse_framerate_within from the drop type on: what it returns or raises.
_parse_drop_type(fps, drop_type_str) ==
    IF Len(drop_type_str) = 0 /\ fps \in {FPS_29_970, FPS_59_940}
    THEN Exception("ambiguous; specify drop or non-drop")
    ELSE FrameRate(fps, _drop_type_of(drop_type_str))

_parse_fps(match, fps) ==
    IF fps = <<>>
    THEN [result |-> Exception("Unsupported framerate fps"), printed |-> <<>>]
    ELSE [result  |-> _parse_drop_type(fps[1], match.drop_type_str),
          printed |-> _ambiguity_warning(match.fps_str, fps[1])]

_parse_match(match) ==
    IF match = None THEN [result |-> None, printed |-> <<>>]
    ELSE _parse_fps(match, _fps_of(match.fps_str))

\* The value returned (or the exception raised) and the lines printed.
parse_framerate_within(s, level) ==
    _parse_match(IF level = SEARCH_WITHIN THEN re_search(s)
                 ELSE re_match(strip(s)))

\* ------------------------------------------------------------------------
\* prompt.py: prompt_framerate.  The answer typed is an integer, or a text
\* that int() rejects.
\* ------------------------------------------------------------------------

NumChoices == 12

IntAnswer(n) == [kind |-> "int", choice |-> n]
NotAnInt == [kind |-> "text"]
SystemExit(code) == [kind |-> "SystemExit", code |-> code]

_framerate_menu ==
    <<BlankLine,
      Line("[ 1] 23.976 non-drop    [ 7] 47.952 non-drop"),
      Line("[ 2] 24.000 non-drop    [ 8] 48.000 non-drop"),
      Line("[ 3] 25.000 non-drop    [ 9] 50.000 non-drop"),
      Line("[ 4] 29.970 drop        [10] 59.940 drop"),
      Line("[ 5] 29.970 non-drop    [11] 59.940 non-drop"),
      Line("[ 6] 30.000 non-drop    [12] 60.000 non-drop"),
      BlankLine,
      Line(">>>>>>>>>> Select your framerate (1-12): ")>>

_framerate_of_choice(choice) ==
    IF choice = 1 THEN FrameRate(FPS_23_976, NON_DROP)
    ELSE IF choice = 2 THEN FrameRate(FPS_24_000, NON_DROP)
    ELSE IF choice = 3 THEN FrameRate(FPS_25_000, NON_DROP)
    ELSE IF choice = 4 THEN FrameRate(FPS_29_970, DROP)
    ELSE IF choice = 5 THEN FrameRate(FPS_29_970, NON_DROP)
    ELSE IF choice = 6 THEN FrameRate(FPS_30_000, NON_DROP)
    ELSE IF choice = 7 THEN FrameRate(FPS_47_952, NON_DROP)
    ELSE IF choice = 8 THEN FrameRate(FPS_48_000, NON_DROP)
    ELSE IF choice = 9 THEN FrameRate(FPS_50_000, NON_DROP)
    ELSE IF choice = 10 THEN FrameRate(FPS_59_940, DROP)
    ELSE IF choice = 11 THEN FrameRate(FPS_59_940, NON_DROP)
    ELSE FrameRate(FPS_60_000, NON_DROP)

print_error_exit(err_msg) ==
    [result  |-> SystemExit(1),
     printed |-> <<Line("[wavcheck] ERROR: " \o err_msg), BlankLine>>]

prompt_framerate(answer) ==
    IF answer.kind # "int"
    THEN [result  |-> print_error_exit("Invalid framerate input").result,
          printed |-> _framerate_menu
                        \o print_error_exit("Invalid framerate input").printed]
    ELSE IF answer.choice < 1 \/ NumChoices < answer.choice
    THEN [result  |-> print_error_exit("Invalid framerate input").result,
          printed |-> _framerate_menu \o <<BlankLine>>
                        \o print_error_exit("Invalid framerate input").printed]
    ELSE [result  |-> _framerate_of_choice(answer.choice),
          printed |-> _framerate_menu \o <<BlankLine>>]

\* ------------------------------------------------------------------------
\* timecode.py: wall_secs_to_durstr, for finite wall_secs.
\* ------------------------------------------------------------------------

\* f"{n:02}" and str(n) for a natural n.
ZeroPad2(n) == IF n < 10 THEN "0" \o ToString(n) ELSE ToString(n)

\* The fields of the output.
_durstr_sign(is_negative, secs) ==
    IF is_negative /\ secs # 0 THEN "(-) " ELSE ""

_durstr_hours(hh) == IF hh > 0 THEN ToString(hh) \o "h " ELSE ""

_durstr_mins(hh, mm) ==
    IF hh > 0 \/ mm > 0
    THEN (IF hh > 0 THEN ZeroPad2(mm) ELSE ToString(mm)) \o "m "
    ELSE ""

\* wall_secs_to_durstr, from the minutes on and from the hours on.
_durstr_from_mm(is_negative, rounded, hh, secs, mm) ==
    _durstr_sign(is_negative, rounded) \o _durstr_hours(hh)
      \o _durstr_mins(hh, mm) \o ZeroPad2(secs - _SECS_PER_MIN * mm) \o "s"

_durstr_from_hh(is_negative, rounded, hh, secs) ==
    _durstr_from_mm(is_negative, rounded, hh, secs, FloorDiv(secs, _SECS_PER_MIN))

_durstr_from_secs(is_negative, secs, hh) ==
    _durstr_from_hh(is_negative, secs, hh, secs - (_MINS_PER_HR * _SECS_PER_MIN) * hh)

_durstr_rounded(is_negative, secs) ==
    _durstr_from_secs(is_negative, secs, FloorDiv(secs, _MINS_PER_HR * _SECS_PER_MIN))

wall_secs_to_durstr(wall_secs) ==
    _durstr_rounded(wall_secs.neg /\ ~FIsZero(wall_secs),
                    FFloor(FAdd([wall_secs EXCEPT !.neg = FALSE], FDivInt(1, 2))))

\* ------------------------------------------------------------------------
\* Timecodes in file names (read.py, timecode.py).
\* ------------------------------------------------------------------------

EXPLICIT == "EXPLICIT"
IMPLICIT == "IMPLICIT"
TcConfidence == {EXPLICIT, IMPLICIT}

FilenameTimecode(tc_, confidence) ==
    [kind |-> "FilenameTimecode", tc |-> tc_, confidence |-> confidence]

\* parse_timecode_str: the digits of tc_str, as a number, padded to 8 digits.
parse_timecode_str(tc_str) ==
    LET n == DigitsVal(SelectSeq(tc_str, IsDigit), 0)
    IN  IF n >= 100000000
        THEN Exception("Could not parse timecode")
        ELSE Timecode(n \div 1000000, (n \div 10000) % 100, (n \div 100) % 100, n % 100)

\* [-_. ]
IsTcSeparator(c) == c \in {"-", "_", ".", " "}

\* \d repeated n times at s[p], and [^\d] at s[p].
DigitsAt(s, p, n) == p + n - 1 <= Len(s) /\ \A k \in p..(p + n - 1) : IsDigit(s[k])
NonDigitAt(s, p) == p <= Len(s) /\ ~IsDigit(s[p])

\* [-_. ]\d\d, three times over, at s[p].
SeparatedPairsAt(s, p) ==
    /\ p + 8 <= Len(s)
    /\ \A g \in 0..2 : IsTcSeparator(s[p + 3 * g]) /\ DigitsAt(s, p + 3 * g + 1, 2)

\* Where a match of each pattern that starts at s[p] and is followed by [^\d]
\* ends (the index after its last character), the optional digit tried first;
\* 0 if there is none.
_TC_NUMBERS_NO_SEPARATORS_end(s, p) ==
    IF DigitsAt(s, p, 8) /\ NonDigitAt(s, p + 8) THEN p + 8
    ELSE IF DigitsAt(s, p, 7) /\ NonDigitAt(s, p + 7) THEN p + 7
    ELSE 0

_TC_NUMBERS_SEPARATORS_end(s, p) ==
    IF DigitsAt(s, p, 2) /\ SeparatedPairsAt(s, p + 2) /\ NonDigitAt(s, p + 11) THEN p + 11
    ELSE IF DigitsAt(s, p, 1) /\ SeparatedPairsAt(s, p + 1) /\ NonDigitAt(s, p + 10) THEN p + 10
    ELSE 0

_TC_NUMBERS_FILENAME_PATTERN_end(s, p) ==
    IF _TC_NUMBERS_NO_SEPARATORS_end(s, p) # 0
    THEN _TC_NUMBERS_NO_SEPARATORS_end(s, p)
    ELSE _TC_NUMBERS_SEPARATORS_end(s, p)

RECURSIVE SkipTcSeparators(_, _)
SkipTcSeparators(s, p) ==
    IF p <= Len(s) /\ IsTcSeparator(s[p]) THEN SkipTcSeparators(s, p + 1) ELSE p

\* _TC_EXPLICIT_FILENAME_PATTERN.search(name): group 1 of the leftmost match
\* from s[i] on, <<>> if there is none.
RECURSIVE _TC_EXPLICIT_FILENAME_PATTERN_search(_, _)
_TC_EXPLICIT_FILENAME_PATTERN_search(s, i) ==
    IF i > Len(s) THEN <<>>
    ELSE IF LitAt(s, i, <<"t", "c">>)
            /\ _TC_NUMBERS_FILENAME_PATTERN_end(s, SkipTcSeparators(s, i + 2)) # 0
    THEN SubSeq(s, SkipTcSeparators(s, i + 2),
                _TC_NUMBERS_FILENAME_PATTERN_end(s, SkipTcSeparators(s, i + 2)) - 1)
    ELSE _TC_EXPLICIT_FILENAME_PATTERN_search(s, i + 1)

\* _TC_IMPLICIT_FILENAME_PATTERN.finditer(name): group 1 of every match from
\* s[i] on, left to right; a match takes the [^\d] on either side of it, and
\* the next one is looked for after it.
RECURSIVE _TC_IMPLICIT_FILENAME_PATTERN_finditer(_, _)
_TC_IMPLICIT_FILENAME_PATTERN_finditer(s, i) ==
    IF i > Len(s) THEN <<>>
    ELSE IF NonDigitAt(s, i) /\ _TC_NUMBERS_FILENAME_PATTERN_end(s, i + 1) # 0
    THEN <<SubSeq(s, i + 1, _TC_NUMBERS_FILENAME_PATTERN_end(s, i + 1) - 1)>>
         \o _TC_IMPLICIT_FILENAME_PATTERN_finditer(
                s, _TC_NUMBERS_FILENAME_PATTERN_end(s, i + 1) + 1)
    ELSE _TC_IMPLICIT_FILENAME_PATTERN_finditer(s, i + 1)

_last_implicit_tc(matches) ==
    IF matches = <<>> THEN None
    ELSE FilenameTimecode(parse_timecode_str(matches[Len(matches)]), IMPLICIT)

_find_tc_in_filename(name) ==
    IF _TC_EXPLICIT_FILENAME_PATTERN_search(name, 1) # <<>>
    THEN FilenameTimecode(
             parse_timecode_str(_TC_EXPLICIT_FILENAME_PATTERN_search(name, 1)), EXPLICIT)
    ELSE _last_implicit_tc(_TC_IMPLICIT_FILENAME_PATTERN_finditer(name, 1))

\* ------------------------------------------------------------------------
\* WAV metadata (data.py) and reading it from the files of a directory
\* (read.py). A file is the sequence of its RIFF chunks after the 12 byte
\* header; a chunk is its name, the size its header declares, the number of
\* bytes of its body the file holds (fewer than size: the file ends within the
\* chunk) and the values of the fields struct.unpack reads from its body.
\* ------------------------------------------------------------------------

BITS_PER_BYTE == 8
WAVE_FORMAT_PCM == 1
WAVE_FORMAT_MPEG == 80
WAVE_FORMAT_EXTENSIBLE == 65534

KSDATAFORMAT_SUBTYPE_PCM == <<1, 0, 0, 0, 0, 0, 16, 0, 128, 0, 0, 170, 0, 56, 155, 113>>

\* struct.calcsize of _FMT_STRUCT_PACK_FMT, _FMT_EXTENSIBLE_PACK_FMT and
\* _BWF_STRUCT_PACK_FMT.
_FMT_STRUCT_SIZE == 16
_FMT_EXTENSIBLE_SIZE == 24
_BWF_STRUCT_SIZE == 602

FmtMetadata(format_tag, num_chans, bit_depth, sample_rate_hz, ext_sub_format) ==
    [kind |-> "FmtMetadata", format_tag |-> format_tag, num_chans |-> num_chans,
     bit_depth |-> bit_depth, sample_rate_hz |-> sample_rate_hz,
     ext_sub_format |-> ext_sub_format]

\* WavMetadata(path), with tc_in_filename as _read_wav_file sets it at once.
WavMetadata(path, tc_in_filename) ==
    [kind |-> "WavMetadata", path |-> path, tc_in_filename |-> tc_in_filename,
     fmt_data |-> None, bwf_data |-> None, data_size_bytes |-> 0]

WavFileState(filename_, metadata) ==
    [kind |-> "WavFileState", filename |-> filename_, metadata |-> metadata,
     failed_checks |-> <<>>]

\* wav_files holds the WavFileStates in the order of the dict's keys.
InternalState(wav_files) ==
    [kind |-> "InternalState", wav_files |-> wav_files, failed_cross_checks |-> <<>>]

Min(a, b) == IF a < b THEN a ELSE b

\* chunk.read(): the bytes of the body the file holds, at most size.
ChunkDataLen(ck) == Min(ck.size, ck.avail)

_read_fmt_metadata(fmt_chunk) ==
    IF ChunkDataLen(fmt_chunk) < _FMT_STRUCT_SIZE
    THEN Exception("struct.error")
    ELSE IF fmt_chunk.fields.format_tag # WAVE_FORMAT_EXTENSIBLE
    THEN FmtMetadata(fmt_chunk.fields.format_tag, fmt_chunk.fields.num_chans,
                     fmt_chunk.fields.bits_per_sample,
                     fmt_chunk.fields.samples_per_sec, <<>>)
    ELSE IF ChunkDataLen(fmt_chunk) < _FMT_STRUCT_SIZE + _FMT_EXTENSIBLE_SIZE
    THEN Exception("struct.error")
    ELSE FmtMetadata(fmt_chunk.fields.format_tag, fmt_chunk.fields.num_chans,
                     fmt_chunk.fields.valid_bits_per_sample,
                     fmt_chunk.fields.samples_per_sec, fmt_chunk.fields.sub_format)

HexChars == DigitChars \o <<"A", "B", "C", "D", "E", "F">>

\* bytes.hex().upper()
RECURSIVE hex_upper(_)
hex_upper(bytes) ==
    IF bytes = <<>> THEN <<>>
    ELSE <<HexChars[(bytes[1] \div 16) + 1], HexChars[(bytes[1] % 16) + 1]>>
         \o hex_upper(Tail(bytes))

\* float(field) / 100.0 for a signed 16 bit field.
_loudness(field) ==
    IF field < 0
    THEN [FDivInt(0 - field, 100) EXCEPT !.neg = TRUE]
    ELSE FDivInt(field, 100)

\* The attributes a BwfMetadata has at each version; None stands for an
\* attribute that was never set.
_read_bwf_metadata(bwf_chunk) ==
    IF ChunkDataLen(bwf_chunk) < _BWF_STRUCT_SIZE
    THEN Exception("struct.error")
    ELSE [kind |-> "BwfMetadata",
          samples_since_origin |-> bwf_chunk.fields.time_reference,
          version |-> bwf_chunk.fields.version,
          umid |-> IF bwf_chunk.fields.version >= 1 THEN bwf_chunk.fields.umid ELSE None,
          umid_hex |-> IF bwf_chunk.fields.version >= 1
                       THEN hex_upper(bwf_chunk.fields.umid) ELSE None,
          integrated_lufs |-> IF bwf_chunk.fields.version >= 2
                              THEN _loudness(bwf_chunk.fields.loudness_value) ELSE None,
          max_dbtp |-> IF bwf_chunk.fields.version >= 2
                       THEN _loudness(bwf_chunk.fields.max_true_peak_level) ELSE None,
          max_momentary_lufs |-> IF bwf_chunk.fields.version >= 2
                                 THEN _loudness(bwf_chunk.fields.max_momentary_loudness)
                                 ELSE None,
          max_short_term_lufs |-> IF bwf_chunk.fields.version >= 2
                                  THEN _loudness(bwf_chunk.fields.max_short_term_loudness)
                                  ELSE None]

\* The body of the loop of _read_wav_file on one chunk: the metadata after it,
\* or the exception _read_fmt_metadata or _read_bwf_metadata raised.
_set_or_raise(metadata, field, value) ==
    IF IsException(value) THEN value ELSE [metadata EXCEPT ![field] = value]

_read_chunk(metadata, subchunk) ==
    IF subchunk.name = "fmt "
    THEN _set_or_raise(metadata, "fmt_data", _read_fmt_metadata(subchunk))
    ELSE IF subchunk.name = "bext"
    THEN _set_or_raise(metadata, "bwf_data", _read_bwf_metadata(subchunk))
    ELSE IF subchunk.name = "data"
    THEN [metadata EXCEPT !.data_size_bytes = subchunk.size]
    ELSE metadata

\* The loop of _read_wav_file from chunk i on. chunk.Chunk raises EOFError,
\* which ends the loop, where the file holds no further chunk header: after the
\* last chunk, and after a chunk the file ends within (skip() seeks past the
\* end of the file). Any other exception leaves the loop and the function.
RECURSIVE _read_chunks(_, _, _)
_read_chunks(metadata, chunks, i) ==
    IF i > Len(chunks) \/ IsException(metadata) THEN metadata
    ELSE IF chunks[i].avail < chunks[i].size
    THEN _read_chunk(metadata, chunks[i])
    ELSE _read_chunks(_read_chunk(metadata, chunks[i]), chunks, i + 1)

_read_wav_file(path) ==
    _read_chunks(WavMetadata(path.name, _find_tc_in_filename(path.name)), path.chunks, 1)

endswith(s, suffix) ==
    Len(s) >= Len(suffix) /\ SubSeq(s, Len(s) - Len(suffix) + 1, Len(s)) = suffix

_any_explicit(wav_files) ==
    \E k \in DOMAIN wav_files :
        /\ wav_files[k].metadata.tc_in_filename # None
        /\ wav_files[k].metadata.tc_in_filename.confidence = EXPLICIT

_keep_every_filename_tc(wav_files) == wav_files

_clean_up_filename_tcs(wav_files) ==
    IF _any_explicit(wav_files)
    THEN [k \in DOMAIN wav_files |->
             IF /\ wav_files[k].metadata.tc_in_filename # None
                /\ wav_files[k].metadata.tc_in_filename.confidence = IMPLICIT
             THEN [wav_files[k] EXCEPT !.metadata.tc_in_filename = None]
             ELSE wav_files[k]]
    ELSE wav_files

\* The loop of read_wav_files from entry i on, and what follows it: the
\* InternalState returned, or the exception that _read_wav_file raised.
RECURSIVE _read_entries(_, _, _)
_read_entries(dir, i, wav_files) ==
    IF i > Len(dir) THEN InternalState(_clean_up_filename_tcs(wav_files))
    ELSE IF ~(dir[i].is_file /\ endswith(dir[i].name, <<".", "w", "a", "v">>))
    THEN _read_entries(dir, i + 1, wav_files)
    ELSE LET metadata == _read_wav_file(dir[i])
         IN  IF IsException(metadata) THEN metadata
             ELSE _read_entries(dir, i + 1,
                                Append(wav_files, WavFileState(dir[i].name, metadata)))

read_wav_files(dir) == _read_entries(dir, 1, <<>>)

\* ------------------------------------------------------------------------
\* The checks (check.py) and the report of the cross-file checks (report.py).
\* ------------------------------------------------------------------------

NONSTANDARD_FORMAT == "NONSTANDARD_FORMAT"
LOW_BIT_DEPTH == "LOW_BIT_DEPTH"
LOW_SAMPLE_RATE == "LOW_SAMPLE_RATE"
VERY_SHORT_DURATION == "VERY_SHORT_DURATION"
MISSING_BWF == "MISSING_BWF"
STARTS_AT_TIME_ZERO == "STARTS_AT_TIME_ZERO"
FRACTIONAL_FRAME_START_TC == "FRACTIONAL_FRAME_START_TC"
MISSING_UMID == "MISSING_UMID"
UNNATURALLY_LOUD == "UNNATURALLY_LOUD"
FILENAME_TC_MISMATCH == "FILENAME_TC_MISMATCH"

MULTIPLE_BIT_DEPTHS == "MULTIPLE_BIT_DEPTHS"
MULTIPLE_SAMPLE_RATES == "MULTIPLE_SAMPLE_RATES"
NON_UNIQUE_UMIDS == "NON_UNIQUE_UMIDS"

\* The bits of X (a natural in limbs) below bit k.
BigLowBits(X, k) ==
    [i \in 1..Len(X) |->
        IF (Len(X) - i + 1) * LimbBits <= k THEN X[i]
        ELSE IF (Len(X) - i) * LimbBits >= k THEN 0
        ELSE X[i] % 2 ^ (k - (Len(X) - i) * LimbBits)]

\* x % 1.0 for a float x >= 0: exact.
FMod1(x) ==
    IF FIsZero(x) \/ x.e >= 0 THEN FZero
    ELSE RoundBig(FALSE, BigLowBits(x.m, 0 - x.e), x.e, FALSE)

\* x >= y for floats.
FGreaterEq(x, y) == ~FLess(x, y)

\* WavMetadata.duration_secs, in its three steps. num_chans * (bit_depth / 8)
\* is exact (eighths); the float floor division of the whole number
\* data_size_bytes by it is floor(8 * data_size_bytes / (8 * frame_size_bytes)).
_duration_of_frames(metadata, num_frames) ==
    IF metadata.fmt_data.sample_rate_hz = 0
    THEN Exception("ZeroDivisionError: float division by zero")
    ELSE FDivInt(num_frames, metadata.fmt_data.sample_rate_hz)

_duration_of_frame_size(metadata, frame_size_bytes) ==
    IF FIsZero(frame_size_bytes)
    THEN Exception("ZeroDivisionError: float floor division by zero")
    ELSE _duration_of_frames(
             metadata,
             (metadata.data_size_bytes * BITS_PER_BYTE)
                 \div FFloorScaled(frame_size_bytes, 3))

duration_secs(metadata) ==
    _duration_of_frame_size(
        metadata,
        FMulInt(FDivInt(metadata.fmt_data.bit_depth, BITS_PER_BYTE),
                metadata.fmt_data.num_chans))

bwf_start_time_secs(metadata) ==
    FDivInt(metadata.bwf_data.samples_since_origin, metadata.fmt_data.sample_rate_hz)

_is_all_zeros(data) == \A i \in DOMAIN data : data[i] = 0

\* A variant that tests the sample rate before the bit depth.
_basic_checks_sample_rate_first(fmt_data, duration) ==
    (IF fmt_data.format_tag = WAVE_FORMAT_EXTENSIBLE
     THEN IF fmt_data.ext_sub_format # KSDATAFORMAT_SUBTYPE_PCM
          THEN <<NONSTANDARD_FORMAT>> ELSE <<>>
     ELSE IF fmt_data.format_tag # WAVE_FORMAT_PCM
          THEN <<NONSTANDARD_FORMAT>> ELSE <<>>)
    \o (IF fmt_data.sample_rate_hz < 44100 THEN <<LOW_SAMPLE_RATE>> ELSE <<>>)
    \o (IF fmt_data.bit_depth < 16 THEN <<LOW_BIT_DEPTH>> ELSE <<>>)
    \o (IF FLess(duration, FFromInt(1)) THEN <<VERY_SHORT_DURATION>> ELSE <<>>)

\* The basic checks of _check_wav_file on a duration that was computed.
_basic_checks(fmt_data, duration) ==
    (IF fmt_data.format_tag = WAVE_FORMAT_EXTENSIBLE
     THEN IF fmt_data.ext_sub_format # KSDATAFORMAT_SUBTYPE_PCM
          THEN <<NONSTANDARD_FORMAT>> ELSE <<>>
     ELSE IF fmt_data.format_tag # WAVE_FORMAT_PCM
          THEN <<NONSTANDARD_FORMAT>> ELSE <<>>)
    \o (IF fmt_data.bit_depth < 16 THEN <<LOW_BIT_DEPTH>> ELSE <<>>)
    \o (IF fmt_data.sample_rate_hz < 44100 THEN <<LOW_SAMPLE_RATE>> ELSE <<>>)
    \o (IF FLess(duration, FFromInt(1)) THEN <<VERY_SHORT_DURATION>> ELSE <<>>)

_is_louder_than_thresholds(bwf_data) ==
    \/ FLess([FDivInt(3, 10) EXCEPT !.neg = TRUE], bwf_data.max_dbtp)
    \/ FLess([FFromInt(3) EXCEPT !.neg = TRUE], bwf_data.max_momentary_lufs)
    \/ FLess([FFromInt(6) EXCEPT !.neg = TRUE], bwf_data.max_short_term_lufs)
    \/ FLess([FFromInt(9) EXCEPT !.neg = TRUE], bwf_data.integrated_lufs)

_is_unnaturally_loud(bwf_data) ==
    \/ FGreaterEq(bwf_data.max_dbtp, [FDivInt(3, 10) EXCEPT !.neg = TRUE])
    \/ FGreaterEq(bwf_data.max_momentary_lufs, [FFromInt(3) EXCEPT !.neg = TRUE])
    \/ FGreaterEq(bwf_data.max_short_term_lufs, [FFromInt(6) EXCEPT !.neg = TRUE])
    \/ FGreaterEq(bwf_data.integrated_lufs, [FFromInt(9) EXCEPT !.neg = TRUE])

_loudness_check(bwf_data) ==
    IF bwf_data.version < 2 THEN <<>>
    ELSE IF _is_unnaturally_loud(bwf_data) THEN <<UNNATURALLY_LOUD>>
    ELSE <<>>

\* The Broadcast Wave Format checks of _check_wav_file.
_bwf_checks(frame_rate, metadata, start_secs) ==
    (IF metadata.bwf_data.samples_since_origin = 0
     THEN <<STARTS_AT_TIME_ZERO>> ELSE <<>>)
    \o (IF FLess(FDivInt(1, 100),
                 FMod1(wall_secs_to_fractional_frame_idx(start_secs, frame_rate)))
        THEN <<FRACTIONAL_FRAME_START_TC>> ELSE <<>>)
    \o (IF metadata.bwf_data.version = 0 \/ _is_all_zeros(metadata.bwf_data.umid)
        THEN <<MISSING_UMID>> ELSE <<>>)
    \o (IF /\ metadata.tc_in_filename # None
           /\ ~TimecodeEq(metadata.tc_in_filename.tc,
                          wall_secs_to_tc_left(start_secs, frame_rate))
        THEN <<FILENAME_TC_MISMATCH>> ELSE <<>>)
    \o _loudness_check(metadata.bwf_data)

_always_missing_bwf(frame_rate, wav_state, duration) ==
    IF "kind" \in DOMAIN duration THEN duration
    ELSE [wav_state EXCEPT !.failed_checks =
             @ \o _basic_checks(wav_state.metadata.fmt_data, duration) \o <<MISSING_BWF>>]

\* What follows duration_secs() in _check_wav_file; an exception is a record
\* with a kind, a float is not.
_checks_after_duration(frame_rate, wav_state, duration) ==
    IF "kind" \in DOMAIN duration THEN duration
    ELSE IF wav_state.metadata.bwf_data = None
    THEN [wav_state EXCEPT !.failed_checks =
             @ \o _basic_checks(wav_state.metadata.fmt_data, duration) \o <<MISSING_BWF>>]
    ELSE [wav_state EXCEPT !.failed_checks =
             @ \o _basic_checks(wav_state.metadata.fmt_data, duration)
               \o _bwf_checks(frame_rate, wav_state.metadata,
                              bwf_start_time_secs(wav_state.metadata))]

\* _check_wav_file: wav_state with its failed_checks appended to, or the
\* exception raised.
_check_wav_file(frame_rate, wav_state) ==
    IF wav_state.metadata.fmt_data = None
    THEN Exception("AttributeError: 'NoneType' object has no attribute 'format_tag'")
    ELSE _checks_after_duration(frame_rate, wav_state, duration_secs(wav_state.metadata))

Contains(seq, v) == \E k \in DOMAIN seq : seq[k] = v

\* umid_counts: the Counter of check_wav_files, a function on its keys.
_counted(wav_files) ==
    {k \in DOMAIN wav_files :
        /\ wav_files[k].metadata.bwf_data # None
        /\ ~Contains(wav_files[k].failed_checks, MISSING_UMID)}

_umid_counts_of_every_bwf(wav_files) ==
    [umid \in {wav_files[k].metadata.bwf_data.umid_hex :
                  k \in {j \in DOMAIN wav_files :
                            /\ wav_files[j].metadata.bwf_data # None
                            /\ wav_files[j].metadata.bwf_data.version >= 1}} |->
        Cardinality({k \in DOMAIN wav_files :
                        /\ wav_files[k].metadata.bwf_data # None
                        /\ wav_files[k].metadata.bwf_data.version >= 1
                        /\ wav_files[k].metadata.bwf_data.umid_hex = umid})]

_umid_counts(wav_files) ==
    [umid \in {wav_files[k].metadata.bwf_data.umid_hex : k \in _counted(wav_files)} |->
        Cardinality({k \in _counted(wav_files) :
                        wav_files[k].metadata.bwf_data.umid_hex = umid})]

_non_unique_umids(umid_counts) ==
    IF \E umid \in DOMAIN umid_counts : umid_counts[umid] >= 2
    THEN <<NON_UNIQUE_UMIDS>> ELSE <<>>

_cross_checks_of_neighbours(wav_files) ==
    (IF \E k \in 1..(Len(wav_files) - 1) :
            wav_files[k].metadata.fmt_data.bit_depth
                # wav_files[k + 1].metadata.fmt_data.bit_depth
     THEN <<MULTIPLE_BIT_DEPTHS>> ELSE <<>>)
    \o (IF wav_files[1].metadata.fmt_data.sample_rate_hz
              # wav_files[Len(wav_files)].metadata.fmt_data.sample_rate_hz
        THEN <<MULTIPLE_SAMPLE_RATES>> ELSE <<>>)
    \o _non_unique_umids(_umid_counts(wav_files))

\* The cross-file checks of check_wav_files on the files checked.
_cross_checks(wav_files) ==
    (IF Cardinality({wav_files[k].metadata.fmt_data.bit_depth : k \in DOMAIN wav_files}) >= 2
     THEN <<MULTIPLE_BIT_DEPTHS>> ELSE <<>>)
    \o (IF Cardinality({wav_files[k].metadata.fmt_data.sample_rate_hz :
                           k \in DOMAIN wav_files}) >= 2
        THEN <<MULTIPLE_SAMPLE_RATES>> ELSE <<>>)
    \o _non_unique_umids(_umid_counts(wav_files))

\* The loop of check_wav_files from file i on, and the cross-file checks after
\* it: the InternalState as it is left, or the exception _check_wav_file raised.
_checked(st, i, wav_state) == [st EXCEPT !.wav_files[i] = wav_state]

RECURSIVE _check_files(_, _, _)
_check_files(frame_rate, st, i) ==
    IF i > Len(st.wav_files)
    THEN [st EXCEPT !.failed_cross_checks = @ \o _cross_checks(st.wav_files)]
    ELSE LET returned == _check_wav_file(frame_rate, st.wav_files[i])
         IN  IF IsException(returned) THEN returned
             ELSE _check_files(frame_rate, _checked(st, i, returned), i + 1)

check_wav_files(frame_rate, st) ==
    IF Len(st.wav_files) = 0
    THEN SystemExit("[wavcheck] ERROR: No .wav files found (or is this a John Cage thing?)")
    ELSE _check_files(frame_rate, st, 1)

\* report.py: what _report_checks prints, one record for each list printed
\* (the wording and the details of the per-file warnings are left out).
_has_umid(wav_state) ==
    wav_state.metadata.bwf_data # None /\ wav_state.metadata.bwf_data.version >= 1

\* umids[umid_hex]: the names of the files from k on that hold the UMID.
RECURSIVE _umids(_, _, _)
_umids(wav_files, umid_hex, k) ==
    IF k > Len(wav_files) THEN <<>>
    ELSE (IF _has_umid(wav_files[k]) /\ wav_files[k].metadata.bwf_data.umid_hex = umid_hex
          THEN <<wav_files[k].filename>> ELSE <<>>)
         \o _umids(wav_files, umid_hex, k + 1)

\* The lists printed for NON_UNIQUE_UMIDS, in the order of the keys of umids
\* (each UMID at the first file that holds it), from file k on.
RECURSIVE _print_same_umids(_, _)
_print_same_umids(wav_files, k) ==
    IF k > Len(wav_files) THEN <<>>
    ELSE (IF /\ _has_umid(wav_files[k])
             /\ _umids(wav_files, wav_files[k].metadata.bwf_data.umid_hex, 1)[1]
                    = wav_files[k].filename
             /\ Len(_umids(wav_files, wav_files[k].metadata.bwf_data.umid_hex, 1)) >= 2
          THEN <<[kind |-> "same_umid",
                  files |-> _umids(wav_files, wav_files[k].metadata.bwf_data.umid_hex, 1)]>>
          ELSE <<>>)
         \o _print_same_umids(wav_files, k + 1)

_print_cross_check(cross_check, st) ==
    IF cross_check = MULTIPLE_BIT_DEPTHS
    THEN <<[kind |-> "bit_depths",
            found |-> {st.wav_files[k].metadata.fmt_data.bit_depth :
                          k \in DOMAIN st.wav_files}]>>
    ELSE IF cross_check = MULTIPLE_SAMPLE_RATES
    THEN <<[kind |-> "sample_rates",
            found |-> {st.wav_files[k].metadata.fmt_data.sample_rate_hz :
                          k \in DOMAIN st.wav_files}]>>
    ELSE _print_same_umids(st.wav_files, 1)

RECURSIVE _print_cross_checks(_, _)
_print_cross_checks(st, i) ==
    IF i > Len(st.failed_cross_checks) THEN <<>>
    ELSE _print_cross_check(st.failed_cross_checks[i], st) \o _print_cross_checks(st, i + 1)

RECURSIVE _print_file_checks(_, _)
_print_file_checks(wav_files, k) ==
    IF k > Len(wav_files) THEN <<>>
    ELSE (IF wav_files[k].failed_checks = <<>> THEN <<>>
          ELSE <<[kind |-> "warnings_for", filename |-> wav_files[k].filename,
                  checks |-> wav_files[k].failed_checks]>>)
         \o _print_file_checks(wav_files, k + 1)

_report_checks(st) == _print_cross_checks(st, 1) \o _print_file_checks(st.wav_files, 1)

\* ------------------------------------------------------------------------
\* State.
\* ------------------------------------------------------------------------

VARIABLES
    pc,         \* where the caller stands
    fr,         \* the FrameRate in use
    tc,         \* a Timecode handed to tc_to_wall_secs (None: none)
    wall_secs,  \* a wall time in seconds (a float)
    tc_left,    \* what wall_secs_to_tc_left gave back (None: not called yet)
    text,       \* the text handed to parse_framerate_within
    level,      \* the FrameRateMatchLevel handed to parse_framerate_within
    result,     \* what the parser or the prompt returned or raised
    stdout,     \* the lines printed so far
    output,     \* what wall_secs_to_durstr gave back
    filename,   \* the file name handed to _find_tc_in_filename
    filename_tc, \* what _find_tc_in_filename gave back
    entries,    \* the directory: its entries, in the order scandir yields them
    state,      \* the InternalState (None: not read yet)
    raised,     \* the exception that ended the run (None: none)
    report,     \* the lists of file names the report printed
    disk,       \* the directory as it is on disk when the fixes are made
    typed,      \* what the user types at prompt_should_fix_umids
    edited,     \* the change another program made to a file on disk (None: none)
    wav,        \* the file the chunk loop of _read_wav_file walks
    offset,     \* file.tell() in that loop
    walked,     \* the metadata that loop has collected
    idx,        \* a frame index handed to _frame_idx_to_tc
    idx_back    \* what _tc_to_frame_idx gave back for its timecode

vars ==
    <<pc, fr, tc, wall_secs, tc_left, text, level, result, stdout, output,
      filename, filename_tc, entries, state, raised, report,
      disk, typed, edited, wav, offset, walked, idx, idx_back>>

\* The variables the timecode engine, the frame rate readers and the duration
\* formatter leave alone.
IdleFrameRate ==
    /\ text = <<>>
    /\ level = SEARCH_WITHIN
    /\ result = None
    /\ stdout = <<>>

IdleTimecode ==
    /\ fr = None
    /\ tc = None
    /\ tc_left = None

IdleWav ==
    /\ filename = <<>>
    /\ filename_tc = None
    /\ entries = <<>>
    /\ state = None
    /\ raised = None
    /\ report = <<>>

framerate_vars == <<text, level, result, stdout>>
wav_vars == <<filename, filename_tc, entries, state, raised, report>>

IdleFix ==
    /\ disk = <<>>
    /\ typed = <<>>
    /\ edited = None

IdleWalk ==
    /\ wav = None
    /\ offset = 0
    /\ walked = None

IdleIdx ==
    /\ idx = 0
    /\ idx_back = None

IdleOther == IdleFix /\ IdleWalk /\ IdleIdx

fix_vars == <<disk, typed, edited>>
walk_vars == <<wav, offset, walked>>
idx_vars == <<idx, idx_back>>
other_vars == <<fix_vars, walk_vars, idx_vars>>

\* ------------------------------------------------------------------------
\* The timecode engine: tc_to_wall_secs, then wall_secs_to_tc_left; or
\* wall_secs_to_tc_left on a wall time float(samples) / sample_rate_hz, as
\* WavMetadata.bwf_start_time_secs hands it over, or on a literal.
\* ------------------------------------------------------------------------

MaxHH == 1
MaxSS == 1
MaxFF == 5
MaxWallSteps == 12

\* The twelve frame rates FrameRate accepts.
Rates ==
    {r \in {FrameRate(f, d) : f \in FramesPerSec, d \in DropType} : IsFrameRate(r)}

TimecodeInputs(r) ==
    {Timecode(hh, mm, ss, ff) :
        hh \in 0..MaxHH,
        mm \in 0..(_MINS_PER_HR - 1),
        ss \in (0..MaxSS) \cup {_SECS_PER_MIN - 1},
        ff \in (0..MaxFF) \cup {int_fps(r) - 1}}

FNeg(v) == [v EXCEPT !.neg = ~@]

\* float(samples) / sample_rate_hz for whole numbers of 1/60 s and of
\* 1001/48000 s, the literals of test_timecode.py, and a time before the origin.
WallInputs ==
    {FDivInt(735 * k, 44100) : k \in 0..MaxWallSteps}
    \cup {FDivInt(1001 * k, 48000) : k \in 0..MaxWallSteps}
    \cup {FDivInt(104, 100), FDivInt(6006, 100), FNeg(FDivInt(1, 48000))}

InitTimecode ==
    /\ IdleFrameRate
    /\ IdleWav
    /\ IdleOther
    /\ output = ""
    /\ fr \in Rates
    /\ tc_left = None
    /\ \/ /\ pc = "tc"
          /\ tc \in TimecodeInputs(fr)
          /\ wall_secs = FZero
       \/ /\ pc = "wall_secs"
          /\ tc = None
          /\ wall_secs \in WallInputs

TcToWallSecs ==
    /\ pc = "tc"
    /\ wall_secs' = tc_to_wall_secs(tc, fr)
    /\ pc' = "wall_secs"
    /\ UNCHANGED <<fr, tc, tc_left, framerate_vars, output, wav_vars, other_vars>>

WallSecsToTcLeft ==
    /\ pc = "wall_secs"
    /\ tc_left' = wall_secs_to_tc_left(wall_secs, fr)
    /\ pc' = "done"
    /\ UNCHANGED <<fr, tc, wall_secs, framerate_vars, output, wav_vars, other_vars>>

NextTimecode == TcToWallSecs \/ WallSecsToTcLeft

SpecTimecode == InitTimecode /\ [][NextTimecode]_vars

\* ------------------------------------------------------------------------
\* Reading the frame rate: parse_framerate_within on a text at either match
\* level, or prompt_framerate on the answer typed.
\* ------------------------------------------------------------------------

MaxSpaces == 1

Spaces(n) == [i \in 1..n |-> " "]

\* Every spelling of str in upper and lower case letters.
AnyCase(str) ==
    {[i \in 1..Len(str) |-> IF upper[i] THEN ToUpper(str[i]) ELSE str[i]] :
        upper \in [1..Len(str) -> BOOLEAN]}

\* str in lower case, in upper case and capitalised.
ThreeCases(str) ==
    {str,
     [i \in 1..Len(str) |-> ToUpper(str[i])],
     [i \in 1..Len(str) |-> IF i = 1 THEN ToUpper(str[i]) ELSE str[i]]}

FpsTokens ==
    {<<"2", "3", ".", "9", "7", "6">>, <<"2", "3", ".", "9", "8">>,
     <<"2", "4">>, <<"2", "4", ".">>, <<"2", "4", ".", "0">>,
     <<"2", "4", ".", "0", "0", "0">>, <<"2", "5">>,
     <<"2", "9", ".", "9", "7">>, <<"2", "9", ".", "9", "7", "0">>,
     <<"2", "9", ".", "9">>, <<"3", "0">>, <<"3", "0", ".", "0", "0">>,
     <<"4", "7", ".", "9", "5", "2">>, <<"4", "8">>, <<"5", "0">>,
     <<"5", "9", ".", "9", "4">>, <<"5", "9", ".", "9", "4", "0">>,
     <<"6", "0">>, <<"2", "4", "0">>, <<"7">>}

DropQualifiers == {<<"d", "r", "o", "p">>, <<"d">>, <<"d", "f">>}
NonDropQualifiers ==
    {<<"n", "o", "n", "-", "d", "r", "o", "p">>, <<"n", "d">>, <<"n", "d", "f">>}

Qualifiers ==
    {<<>>}
    \cup UNION {AnyCase(q) : q \in DropQualifiers \cup {<<"n", "d">>, <<"n", "d", "f">>}}
    \cup UNION {ThreeCases(q) :
                   q \in {<<"n", "o", "n", "-", "d", "r", "o", "p">>,
                          <<"n", "o", "n", " ", "d", "r", "o", "p">>,
                          <<"n", "o", "n", "d", "r", "o", "p">>,
                          <<"f", "p", "s">>, <<"n">>}}

Prefixes == {<<>>, <<" ">>, <<"a", " ">>}
Suffixes == {<<>>, <<" ">>, <<"x">>, <<".", "t", "x", "t">>}

TextInputs ==
    {pre \o tok \o Spaces(n) \o qual \o suf :
        pre \in Prefixes, tok \in FpsTokens, n \in 0..MaxSpaces,
        qual \in Qualifiers, suf \in Suffixes}

PromptAnswers == {IntAnswer(n) : n \in 0..(NumChoices + 1)} \cup {NotAnInt}

InitFrameRate ==
    /\ IdleTimecode
    /\ IdleWav
    /\ IdleOther
    /\ wall_secs = FZero
    /\ output = ""
    /\ result = None
    /\ stdout = <<>>
    /\ \/ /\ pc = "parse"
          /\ text \in TextInputs
          /\ level \in FrameRateMatchLevel
       \/ /\ pc = "prompt"
          /\ text = <<>>
          /\ level = SEARCH_WITHIN

ParseFramerateWithin ==
    /\ pc = "parse"
    /\ result' = parse_framerate_within(text, level).result
    /\ stdout' = stdout \o parse_framerate_within(text, level).printed
    /\ pc' = "parsed"
    /\ UNCHANGED <<fr, tc, wall_secs, tc_left, text, level, output, wav_vars, other_vars>>

PromptFramerate ==
    /\ pc = "prompt"
    /\ \E answer \in PromptAnswers :
           /\ result' = prompt_framerate(answer).result
           /\ stdout' = stdout \o prompt_framerate(answer).printed
    /\ pc' = "prompted"
    /\ UNCHANGED <<fr, tc, wall_secs, tc_left, text, level, output, wav_vars, other_vars>>

NextFrameRate == ParseFramerateWithin \/ PromptFramerate

SpecFrameRate == InitFrameRate /\ [][NextFrameRate]_vars

\* ------------------------------------------------------------------------
\* The duration formatter: wall_secs_to_durstr on a duration in seconds.
\* ------------------------------------------------------------------------

MaxDurSteps == 20

\* The float 0.49999999.
NearlyHalf ==
    [neg |-> FALSE, m |-> <<1, 8191, 8189, 2585, 6287>>, e |-> -54]

\* The largest float below 0.5.
BelowHalf == [neg |-> FALSE, m |-> <<1, 8191, 8191, 8191, 8191>>, e |-> -54]

\* Whole numbers of half seconds, of half minutes less half a second and of
\* half hours less half a second, the literals of test_timecode.py, and the
\* neighbours of a tie; each with either sign.
DurMagnitudes ==
    {FDivInt(k * u, 2) : k \in 0..MaxDurSteps, u \in {1, 59, 3599}}
    \cup {FDivInt(9989, 2), NearlyHalf, FDivInt(3600, 1), BelowHalf}

DurInputs == DurMagnitudes \cup {FNeg(d) : d \in DurMagnitudes}

InitDurStr ==
    /\ IdleTimecode
    /\ IdleWav
    /\ IdleOther
    /\ IdleFrameRate
    /\ pc = "durstr"
    /\ wall_secs \in DurInputs
    /\ output = ""

WallSecsToDurstr ==
    /\ pc = "durstr"
    /\ output' = wall_secs_to_durstr(wall_secs)
    /\ pc' = "formatted"
    /\ UNCHANGED <<fr, tc, wall_secs, tc_left, framerate_vars, wav_vars, other_vars>>

NextDurStr == WallSecsToDurstr

SpecDurStr == InitDurStr /\ [][NextDurStr]_vars

\* ------------------------------------------------------------------------
\* Finding the timecode in a file name: _find_tc_in_filename on a name.
\* ------------------------------------------------------------------------

MaxRuns == 2

\* Numbers as they stand in file names: 8 and 7 digits, grouped by separators,
\* and runs too short and too long for a timecode.
TcNumbers ==
    {<<"0", "1", "0", "0", "0", "0", "0", "0">>,
     <<"0", "2", "0", "0", "0", "0", "0", "0">>,
     <<"1", "2", "3", "4", "5", "6", "7">>,
     <<"0", "1", ".", "0", "2", ".", "0", "3", ".", "0", "4">>,
     <<"1", "2", "3", "4", "5", "6">>,
     <<"0", "1", "2", "3", "4", "5", "6", "7", "8">>}

NamePrefixes == {<<>>, <<"a", "_">>, <<"T", "C">>, <<"a", " ", "t", "c", "_">>}
NameGaps == {<<"_">>, <<"_", "_">>}
NameSuffixes == {<<".", "w", "a", "v">>, <<"_", "v", "2", ".", "w", "a", "v">>}

\* n numbers, from the n-th to the first, each after a gap.
RECURSIVE NumberRuns(_)
NumberRuns(n) ==
    IF n = 0 THEN {<<>>}
    ELSE {rest \o gap \o num : rest \in NumberRuns(n - 1), gap \in NameGaps, num \in TcNumbers}

FilenameInputs ==
    {pre \o num \o runs \o suf :
        pre \in NamePrefixes, num \in TcNumbers,
        runs \in UNION {NumberRuns(n) : n \in 0..(MaxRuns - 1)}, suf \in NameSuffixes}

InitFilenameTc ==
    /\ IdleOther
    /\ IdleTimecode
    /\ IdleFrameRate
    /\ wall_secs = FZero
    /\ output = ""
    /\ pc = "name"
    /\ filename \in FilenameInputs
    /\ filename_tc = None
    /\ entries = <<>>
    /\ state = None
    /\ raised = None
    /\ report = <<>>

FindTcInFilename ==
    /\ pc = "name"
    /\ filename_tc' = _find_tc_in_filename(filename)
    /\ pc' = "found"
    /\ UNCHANGED <<fr, tc, wall_secs, tc_left, framerate_vars, output,
                   filename, entries, state, raised, report, other_vars>>

NextFilenameTc == FindTcInFilename

SpecFilenameTc == InitFilenameTc /\ [][NextFilenameTc]_vars

\* ------------------------------------------------------------------------
\* A run of wavcheck on a directory (main.py): read_wav_files,
\* check_wav_files and the report, at the frame rate of the context.
\* ------------------------------------------------------------------------

MaxNamedFiles == 2
MaxFiles == 3
MaxUmidFiles == 4

fmt_chunk(format_tag, num_chans, samples_per_sec, bits_per_sample, sub_format) ==
    [name |-> "fmt ",
     size |-> IF format_tag = WAVE_FORMAT_EXTENSIBLE
              THEN _FMT_STRUCT_SIZE + _FMT_EXTENSIBLE_SIZE ELSE _FMT_STRUCT_SIZE,
     avail |-> IF format_tag = WAVE_FORMAT_EXTENSIBLE
               THEN _FMT_STRUCT_SIZE + _FMT_EXTENSIBLE_SIZE ELSE _FMT_STRUCT_SIZE,
     fields |-> [format_tag |-> format_tag, num_chans |-> num_chans,
                 samples_per_sec |-> samples_per_sec,
                 bits_per_sample |-> bits_per_sample,
                 valid_bits_per_sample |-> bits_per_sample,
                 sub_format |-> sub_format]]

\* loudness: LoudnessValue, MaxTruePeakLevel, MaxMomentaryLoudness and
\* MaxShortTermLoudness.
bext_chunk(version, time_reference, umid, loudness, avail) ==
    [name |-> "bext", size |-> _BWF_STRUCT_SIZE, avail |-> avail,
     fields |-> [time_reference |-> time_reference, version |-> version, umid |-> umid,
                 loudness_value |-> loudness[1], max_true_peak_level |-> loudness[2],
                 max_momentary_loudness |-> loudness[3],
                 max_short_term_loudness |-> loudness[4]]]

data_chunk(size) == [name |-> "data", size |-> size, avail |-> size, fields |-> <<>>]

WavFile(name, chunks) == [name |-> name, is_file |-> TRUE, chunks |-> chunks]

\* UMIDs: all zeros, and two that are not.
UmidZero == [i \in 1..64 |-> 0]
UmidX == [i \in 1..64 |-> IF i = 64 THEN 1 ELSE 0]
UmidY == [i \in 1..64 |-> IF i = 1 THEN 171 ELSE 0]

\* Loudness fields, in hundredths: well below every threshold, each field
\* alone on its threshold, all just below, all just above, and the ends of the
\* 16 bit range.
QuietLoudness == <<-2300, -100, -1000, -1500>>

LoudnessVariants ==
    {QuietLoudness, <<-900, -100, -1000, -1500>>, <<-2300, -30, -1000, -1500>>,
     <<-2300, -100, -300, -1500>>, <<-2300, -100, -1000, -600>>,
     <<-901, -31, -301, -601>>, <<-899, -29, -299, -599>>,
     <<-32768, -32768, -32768, -32768>>, <<32767, 32767, 32767, 32767>>}

PlainName == <<"a", ".", "w", "a", "v">>
ExplicitName == <<"b", "_", "T", "C", "0", "0", "0", "0", "0", "0", "0", "1", ".", "w", "a", "v">>
ImplicitName == <<"c", "_", "0", "0", "0", "0", "0", "0", "0", "1", "_", ".", "w", "a", "v">>
OtherImplicitName == <<"d", " ", "0", "2", "0", "0", "0", "0", "0", "0", " ", ".", "w", "a", "v">>
TextFileName == <<"e", "_", "0", "3", "0", "0", "0", "0", "0", "0", ".", "t", "x", "t">>

PcmFmt == fmt_chunk(WAVE_FORMAT_PCM, 2, 48000, 24, <<>>)

\* Files as the read phase meets them: plain PCM, with a bext chunk, without a
\* fmt chunk, and ending within the bext chunk.
ReadContents ==
    {<<PcmFmt, data_chunk(576000)>>,
     <<PcmFmt, bext_chunk(1, 2000, UmidX, QuietLoudness, _BWF_STRUCT_SIZE), data_chunk(576000)>>,
     <<data_chunk(576000)>>,
     <<PcmFmt, data_chunk(576000), bext_chunk(1, 2000, UmidX, QuietLoudness, 300)>>}

NamedEntries ==
    {WavFile(name, <<PcmFmt, data_chunk(576000)>>) :
        name \in {PlainName, ExplicitName, ImplicitName, OtherImplicitName}}
    \cup {WavFile(PlainName, chunks) : chunks \in ReadContents}
    \cup {WavFile(TextFileName, <<PcmFmt, data_chunk(576000)>>),
          [name |-> PlainName, is_file |-> FALSE, chunks |-> <<>>]}

\* Directories of up to MaxNamedFiles entries, no name twice.
NamedDirs ==
    UNION {{dir \in [1..n -> NamedEntries] :
               \A i, j \in 1..n : i < j => dir[i].name # dir[j].name} :
           n \in 1..MaxNamedFiles}

\* Files that differ in bit depth, sample rate, BWF version and UMID.
CrossContents ==
    {<<fmt_chunk(WAVE_FORMAT_PCM, 2, 48000, 16, <<>>), data_chunk(576000)>>,
     <<PcmFmt, bext_chunk(1, 2000, UmidX, QuietLoudness, _BWF_STRUCT_SIZE), data_chunk(576000)>>,
     <<PcmFmt, bext_chunk(1, 2000, UmidZero, QuietLoudness, _BWF_STRUCT_SIZE), data_chunk(576000)>>,
     <<fmt_chunk(WAVE_FORMAT_PCM, 2, 44100, 24, <<>>),
       bext_chunk(0, 2000, UmidX, QuietLoudness, _BWF_STRUCT_SIZE), data_chunk(576000)>>,
     <<PcmFmt, bext_chunk(2, 2000, UmidY, QuietLoudness, _BWF_STRUCT_SIZE), data_chunk(576000)>>}

PositionName(i) == <<"f", DigitChars[i + 1], ".", "w", "a", "v">>

\* Directories of up to MaxFiles files (and the empty one).
CrossDirs ==
    UNION {{[i \in 1..n |-> WavFile(PositionName(i), contents[i])] :
               contents \in [1..n -> CrossContents]} :
           n \in 0..MaxFiles}

\* Directories of MaxUmidFiles version 1 files, each with the UMID X or with
\* the all-zero one.
UmidDirs ==
    {[i \in 1..MaxUmidFiles |->
         WavFile(PositionName(i),
                 <<PcmFmt, bext_chunk(1, 2000, umids[i], QuietLoudness, _BWF_STRUCT_SIZE),
                   data_chunk(576000)>>)] :
        umids \in [1..MaxUmidFiles -> {UmidX, UmidZero}]}

\* One file: every fmt chunk of a few values of each field, with and without
\* a bext chunk ...
FmtVariants ==
    {fmt_chunk(format_tag, num_chans, samples_per_sec, bits_per_sample, <<>>) :
        format_tag \in {WAVE_FORMAT_PCM, WAVE_FORMAT_MPEG},
        num_chans \in 0..2, samples_per_sec \in {0, 22050, 48000},
        bits_per_sample \in {0, 8, 16, 24}}
    \cup {fmt_chunk(WAVE_FORMAT_EXTENSIBLE, num_chans, 48000, bits_per_sample, sub_format) :
            num_chans \in 0..2, bits_per_sample \in {0, 8, 16, 24},
            sub_format \in {KSDATAFORMAT_SUBTYPE_PCM, [i \in 1..16 |-> 0]}}

FmtDirs ==
    {<<WavFile(PlainName, <<fmt>> \o bext \o <<data_chunk(size)>>)>> :
        fmt \in FmtVariants,
        bext \in {<<>>, <<bext_chunk(1, 2000, UmidX, QuietLoudness, _BWF_STRUCT_SIZE)>>},
        size \in {96, 576000}}

\* ... and every bext chunk of a few values of each field, under each kind of
\* name.
BextDirs ==
    {<<WavFile(name, <<PcmFmt, bext_chunk(version, time_reference, umid, loudness,
                                          _BWF_STRUCT_SIZE),
                       data_chunk(576000)>>)>> :
        name \in {PlainName, ExplicitName, ImplicitName},
        version \in 0..2, time_reference \in {0, 1000, 2000},
        umid \in {UmidZero, UmidX}, loudness \in LoudnessVariants}

\* One version 1 file that starts a whole number of frames after the origin
\* (2 frames at 24 fps; 5 and 15 frames at 29.97 fps), one hundredth of a
\* frame later (20 and 2020 samples at 24 fps), or in between.
BoundaryStarts == {20, 2020, 4000, 8008, 24024}

BoundaryDirs ==
    {<<WavFile(PlainName, <<PcmFmt, bext_chunk(1, time_reference, UmidX, QuietLoudness,
                                               _BWF_STRUCT_SIZE),
                            data_chunk(576000)>>)>> :
        time_reference \in BoundaryStarts}

DirInputs == NamedDirs \cup CrossDirs \cup UmidDirs \cup FmtDirs \cup BextDirs \cup BoundaryDirs

RunRates == {FrameRate(FPS_24_000, NON_DROP), FrameRate(FPS_29_970, DROP)}

InitRun ==
    /\ IdleOther
    /\ IdleFrameRate
    /\ tc = None
    /\ tc_left = None
    /\ wall_secs = FZero
    /\ output = ""
    /\ filename = <<>>
    /\ filename_tc = None
    /\ pc = "read"
    /\ fr \in RunRates
    /\ entries \in DirInputs
    /\ state = None
    /\ raised = None
    /\ report = <<>>

\* state = read_wav_files(ctx); an exception is not caught and ends the run.
ReadWavFiles ==
    /\ pc = "read"
    /\ \E returned \in {read_wav_files(entries)} :
           IF returned.kind = "InternalState"
           THEN /\ state' = returned
                /\ pc' = "check"
                /\ UNCHANGED raised
           ELSE /\ raised' = returned
                /\ pc' = "aborted"
                /\ UNCHANGED state
    /\ UNCHANGED <<fr, tc, wall_secs, tc_left, framerate_vars, output,
                   filename, filename_tc, entries, report, other_vars>>

\* check_wav_files(ctx, state); sys.exit and an exception end the run.
CheckWavFiles ==
    /\ pc = "check"
    /\ \E returned \in {check_wav_files(fr, state)} :
           IF returned.kind = "InternalState"
           THEN /\ state' = returned
                /\ pc' = "report"
                /\ UNCHANGED raised
           ELSE /\ raised' = returned
                /\ pc' = "aborted"
                /\ UNCHANGED state
    /\ UNCHANGED <<fr, tc, wall_secs, tc_left, framerate_vars, output,
                   filename, filename_tc, entries, report, other_vars>>

ReportChecks ==
    /\ pc = "report"
    /\ report' = _report_checks(state)
    /\ pc' = "done"
    /\ UNCHANGED <<fr, tc, wall_secs, tc_left, framerate_vars, output,
                   filename, filename_tc, entries, state, raised, other_vars>>

NextRun == ReadWavFiles \/ CheckWavFiles \/ ReportChecks

SpecRun == InitRun /\ [][NextRun]_vars

\* ------------------------------------------------------------------------
\* The UMID fix: _maybe_fix_umids after the report, on the files as they are
\* on disk by then. The renaming of files that follows it is left out.

_BWF_UMID_OFFSET == 348
_BWF_UMID_LEN == 64

\* A data chunk together with the bytes its body holds at offsets
\* _BWF_UMID_OFFSET to _BWF_UMID_OFFSET + _BWF_UMID_LEN - 1.
audio_chunk(size, held) ==
    [name |-> "data", size |-> size, avail |-> size, fields |-> [held |-> held]]

\* answer.strip().lower().startswith("y")
prompt_should_fix_umids(answer) ==
    LET lowered == [i \in DOMAIN strip(answer) |-> ToLower(strip(answer)[i])]
    IN  Len(lowered) >= 1 /\ lowered[1] = "y"

\* The loop of write_new_umid that seeks the bext chunk: the index of the
\* chunk subchunk is bound to when the loop ends (0: subchunk is None). The
\* loop ends at the first bext chunk, or with EOFError where the file holds
\* no further chunk header; subchunk is then still the last chunk made.
RECURSIVE _seek_bwf_chunk(_, _, _)
_seek_bwf_chunk(chunks, i, subchunk) ==
    IF i > Len(chunks) THEN subchunk
    ELSE IF chunks[i].name = "bext" THEN i
    ELSE IF chunks[i].avail < chunks[i].size THEN i
    ELSE _seek_bwf_chunk(chunks, i + 1, i)

\* file.read(_BWF_UMID_LEN) after subchunk.seek(_BWF_UMID_OFFSET): the bytes
\* the file holds there, none past its end.
_reread_umid(subchunk) ==
    IF subchunk.avail < _BWF_UMID_OFFSET + _BWF_UMID_LEN THEN <<>>
    ELSE IF subchunk.name = "bext" THEN subchunk.fields.umid
    ELSE subchunk.fields.held

\* file.write(new_umid) at umid_pos.
_write_at_umid_pos(subchunk, new_umid) ==
    IF subchunk.name = "bext" THEN [subchunk EXCEPT !.fields.umid = new_umid]
    ELSE [subchunk EXCEPT !.fields.held = new_umid]

_write_without_reread(subchunk, umid, new_umid) == _write_at_umid_pos(subchunk, new_umid)

\* The end of write_new_umid: the chunk after it, or the exit on a mismatch.
_verify_and_write(subchunk, umid, new_umid) ==
    IF umid # _reread_umid(subchunk) THEN SystemExit(1)
    ELSE _write_at_umid_pos(subchunk, new_umid)

\* write_new_umid on the chunks the file holds: the chunks after the write,
\* or what was raised.
write_new_umid(wav_file, new_umid, chunks) ==
    LET at == _seek_bwf_chunk(chunks, 1, 0)
    IN  IF at = 0 THEN SystemExit(1)
        ELSE IF chunks[at].size < _BWF_UMID_OFFSET + _BWF_UMID_LEN
        THEN Exception("AssertionError")
        ELSE LET written == _verify_and_write(chunks[at], wav_file.metadata.bwf_data.umid,
                                              new_umid)
             IN  IF "kind" \in DOMAIN written THEN written
                 ELSE [kind |-> "Written", chunks |-> [chunks EXCEPT ![at] = written]]

\* umid[13:16] = b"\x00\x00\x00"; umid[16:32] = token
_with_material(umid, token) ==
    [i \in 1..64 |-> IF i \in 14..16 THEN 0
                     ELSE IF i \in 17..32 THEN token[i - 16]
                     ELSE umid[i]]

\* The while loop of _fix_umid on the values secrets.token_bytes returns one
\* after the other: the new UMID and the values left, or None when the loop
\* has not ended on these values.
RECURSIVE _draw_umid(_, _, _)
_draw_umid(umid, seen_hex_umids, tokens) ==
    IF tokens = <<>> THEN None
    ELSE IF hex_upper(_with_material(umid, Head(tokens))) \notin seen_hex_umids
    THEN [kind |-> "Drawn", umid |-> _with_material(umid, Head(tokens)),
          rest |-> Tail(tokens)]
    ELSE _draw_umid(umid, seen_hex_umids, Tail(tokens))

\* open(wav_file.metadata.path): the entry of that name.
FileAt(files, path) == CHOOSE j \in DOMAIN files : files[j].name = path

\* _fix_umid: the new hex UMID, the files after the write and the random
\* values left; or what write_new_umid raised; or None.
_fix_umid(wav_file, seen_hex_umids, files, tokens) ==
    LET drawn == _draw_umid(wav_file.metadata.bwf_data.umid, seen_hex_umids, tokens)
    IN  IF drawn = None THEN None
        ELSE LET at == FileAt(files, wav_file.metadata.path)
                 written == write_new_umid(wav_file, drawn.umid, files[at].chunks)
             IN  IF written.kind # "Written"
                 THEN [kind |-> "Raised", raised |-> written, files |-> files,
                       rest |-> drawn.rest]
                 ELSE [kind |-> "Fixed", new_umid_hex |-> hex_upper(drawn.umid),
                       files |-> [files EXCEPT ![at].chunks = written.chunks],
                       rest |-> drawn.rest]

\* Whether a BwfMetadata has the attribute umid_hex: _read_bwf_metadata sets
\* it for version 1 and later only.
_has_umid_hex(bwf_data) == bwf_data.version >= 1

\* The loop of _maybe_fix_umids from file k on.
RECURSIVE _fix_umids_from(_, _, _, _, _)
_fix_umids_from(wav_files, k, seen_hex_umids, files, tokens) ==
    IF k > Len(wav_files)
    THEN [kind |-> "Done", raised |-> None, files |-> files, rest |-> tokens]
    ELSE IF wav_files[k].metadata.bwf_data = None
    THEN _fix_umids_from(wav_files, k + 1, seen_hex_umids, files, tokens)
    ELSE IF ~_has_umid_hex(wav_files[k].metadata.bwf_data)
    THEN [kind |-> "Raised", raised |-> Exception("AttributeError"), files |-> files,
          rest |-> tokens]
    ELSE IF wav_files[k].metadata.bwf_data.umid_hex \notin seen_hex_umids
    THEN _fix_umids_from(wav_files, k + 1,
                         seen_hex_umids \cup {wav_files[k].metadata.bwf_data.umid_hex},
                         files, tokens)
    ELSE LET fixed == _fix_umid(wav_files[k], seen_hex_umids, files, tokens)
         IN  IF fixed.kind # "Fixed" THEN fixed
             ELSE _fix_umids_from(wav_files, k + 1,
                                  seen_hex_umids \cup {fixed.new_umid_hex},
                                  fixed.files, fixed.rest)

\* _maybe_fix_umids with the answer typed at the prompt, the files on disk
\* and the values secrets.token_bytes returns.
_maybe_fix_umids(internal, answer, files, tokens) ==
    IF ~Contains(internal.failed_cross_checks, NON_UNIQUE_UMIDS)
    THEN [kind |-> "Done", raised |-> None, files |-> files, rest |-> tokens]
    ELSE IF ~prompt_should_fix_umids(answer)
    THEN [kind |-> "Done", raised |-> None, files |-> files, rest |-> tokens]
    ELSE _fix_umids_from(internal.wav_files, 1, {}, files, tokens)

\* ------------------------------------------------------------------------
\* A run with the fix: read, check, report, then _maybe_fix_umids, while
\* another program may change one file on disk after it was read.

MaxFixFiles == 4
MaxDraws == 3

\* A UMID with the given instance number, material number and user bytes.
FixUmid(instance, material, user) ==
    [i \in 1..64 |-> IF i = 1 THEN 6
                     ELSE IF i \in 14..16 THEN instance
                     ELSE IF i \in 17..32 THEN material
                     ELSE IF i = 64 THEN user
                     ELSE 0]

\* The values secrets.token_bytes(16) may return.
Tokens == {[i \in 1..16 |-> 10], [i \in 1..16 |-> 11]}

TokenSeqs == UNION {[1..n -> Tokens] : n \in 0..MaxDraws}

\* The files of a directory: version 2 with a UMID (FixFirst); version 1
\* with the UMID the first would get from the first token, before a short
\* data chunk; version 1 with an all-zero UMID; version 0; and no bext chunk.
\* The audio starts with silence.
FixFirst ==
    <<PcmFmt, bext_chunk(2, 2000, FixUmid(7, 1, 1), QuietLoudness, _BWF_STRUCT_SIZE),
      audio_chunk(576000, UmidZero)>>

FixContents ==
    {FixFirst,
     <<PcmFmt, bext_chunk(1, 2000, FixUmid(0, 10, 1), QuietLoudness, _BWF_STRUCT_SIZE),
       data_chunk(100)>>,
     <<PcmFmt, bext_chunk(1, 2000, UmidZero, QuietLoudness, _BWF_STRUCT_SIZE),
       audio_chunk(576000, UmidZero)>>,
     <<PcmFmt, bext_chunk(0, 2000, UmidZero, QuietLoudness, _BWF_STRUCT_SIZE),
       audio_chunk(576000, UmidZero)>>,
     <<PcmFmt, audio_chunk(576000, UmidZero)>>}

\* Directories of two to MaxFixFiles files, the first one of version 2.
FixDirs ==
    UNION {{[i \in 1..n |-> WavFile(PositionName(i), contents[i])] :
               contents \in {c \in [1..n -> FixContents] : c[1] = FixFirst}} :
           n \in 2..MaxFixFiles}

Answers == {<<" ", "Y", "e", "s">>, <<"n", "o">>}

\* What another program may do to a file: stamp another UMID, move the time
\* reference, drop the bext chunk, or truncate the file to nothing.
Edits == {"umid", "time_reference", "no_bext", "emptied"}

NotBext(ck) == ck.name # "bext"

EditedChunk(ck, how) ==
    IF ck.name # "bext" THEN ck
    ELSE IF how = "umid" THEN [ck EXCEPT !.fields.umid = FixUmid(0, 11, 2)]
    ELSE [ck EXCEPT !.fields.time_reference = @ + 48000]

EditedChunks(chunks, how) ==
    IF how = "emptied" THEN <<>>
    ELSE IF how = "no_bext" THEN SelectSeq(chunks, NotBext)
    ELSE [i \in DOMAIN chunks |-> EditedChunk(chunks[i], how)]

InitFix ==
    /\ IdleWalk
    /\ IdleIdx
    /\ IdleFrameRate
    /\ tc = None
    /\ tc_left = None
    /\ wall_secs = FZero
    /\ output = ""
    /\ filename = <<>>
    /\ filename_tc = None
    /\ pc = "read"
    /\ fr = FrameRate(FPS_24_000, NON_DROP)
    /\ entries \in FixDirs
    /\ state = None
    /\ raised = None
    /\ report = <<>>
    /\ disk = entries
    /\ typed \in Answers
    /\ edited = None

\* Another program changes a file between the read and the fix. Nothing
\* reads the files in between, so the change is placed just before the fix;
\* the file changed is the last one of the directory.
EditOnDisk ==
    /\ pc = "done"
    /\ edited = None
    /\ Contains(state.failed_cross_checks, NON_UNIQUE_UMIDS)
    /\ \E k \in {Len(disk)}, how \in Edits :
           /\ EditedChunks(disk[k].chunks, how) # disk[k].chunks
           /\ edited' = [kind |-> "Edit", file |-> k, how |-> how]
           /\ disk' = [disk EXCEPT ![k].chunks = EditedChunks(@, how)]
    /\ UNCHANGED <<pc, fr, tc, wall_secs, tc_left, framerate_vars, output, wav_vars,
                   typed, walk_vars, idx_vars>>

\* _maybe_fix_umids(ctx, state); sys.exit and an exception end the run.
MaybeFixUmids ==
    /\ pc = "done"
    /\ \E tokens \in TokenSeqs :
           LET fixed == _maybe_fix_umids(state, typed, disk, tokens)
           IN  /\ fixed # None
               /\ fixed.rest = <<>>
               /\ disk' = fixed.files
               /\ raised' = fixed.raised
               /\ pc' = IF fixed.raised = None THEN "umids_fixed" ELSE "fix_aborted"
    /\ UNCHANGED <<fr, tc, wall_secs, tc_left, framerate_vars, output,
                   filename, filename_tc, entries, state, report,
                   typed, edited, walk_vars, idx_vars>>

NextFix == ReadWavFiles \/ CheckWavFiles \/ ReportChecks \/ EditOnDisk \/ MaybeFixUmids

SpecFix == InitFix /\ [][NextFix]_vars

\* ------------------------------------------------------------------------
\* The chunk loop of _read_wav_file, one iteration at a time, on a file given
\* by its chunks and the bytes (fewer than a chunk header) that follow them.

WAV_HDR_LEN_BYTES == 12
CHUNK_HDR_LEN == 8

\* The pad byte that follows a chunk body of odd size.
PadLen(ck) == ck.size % 2

\* The position of the header of chunk i; i = Len(chunks) + 1 gives the
\* position after the last chunk.
RECURSIVE ChunkStart(_, _)
ChunkStart(chunks, i) ==
    IF i = 1 THEN WAV_HDR_LEN_BYTES
    ELSE ChunkStart(chunks, i - 1) + CHUNK_HDR_LEN + chunks[i - 1].size + PadLen(chunks[i - 1])

\* The length of the file: a chunk the file ends within is its last one.
FileLen(file) ==
    IF file.chunks # <<>> /\ file.chunks[Len(file.chunks)].avail < file.chunks[Len(file.chunks)].size
    THEN ChunkStart(file.chunks, Len(file.chunks)) + CHUNK_HDR_LEN
             + file.chunks[Len(file.chunks)].avail
    ELSE ChunkStart(file.chunks, Len(file.chunks) + 1) + file.trailing

\* chunk.Chunk(file) raises EOFError unless the file holds the eight bytes of
\* a header at its position.
_header_at(file, at) == at + CHUNK_HDR_LEN <= FileLen(file)

\* The chunk whose header is at that position.
_chunk_at(file, at) ==
    file.chunks[CHOOSE i \in DOMAIN file.chunks : ChunkStart(file.chunks, i) = at]

\* file.tell() after the reads that ended in EOFError.
_tell_at_eof(file, at) == IF at > FileLen(file) THEN at ELSE FileLen(file)

\* A loop that goes back to the header it has read.
_tell_without_skip(at, subchunk) == at

\* file.tell() after subchunk.skip().
_tell_after_skip(at, subchunk) == at + CHUNK_HDR_LEN + subchunk.size + PadLen(subchunk)

\* file.tell() after subchunk.read() has raised in struct.unpack.
_tell_after_read(at, subchunk) ==
    at + CHUNK_HDR_LEN + ChunkDataLen(subchunk)
       + (IF subchunk.avail >= subchunk.size THEN PadLen(subchunk) ELSE 0)

MaxChunks == 3

OtherChunk(size) == [name |-> "LIST", size |-> size, avail |-> size, fields |-> <<>>]

\* A bext chunk with one byte of coding history.
LongBext ==
    [bext_chunk(1, 2000, UmidX, QuietLoudness, _BWF_STRUCT_SIZE + 1)
         EXCEPT !.size = _BWF_STRUCT_SIZE + 1]

WalkChunks == {PcmFmt, LongBext, data_chunk(0), data_chunk(576000), OtherChunk(5)}

\* The file ends one byte before the end of its last chunk.
CutShort(chunks) == [chunks EXCEPT ![Len(chunks)].avail = @ - 1]

\* Files of up to MaxChunks chunks: whole, followed by part of a header, or
\* ending within the last chunk.
WalkFiles ==
    UNION {{[name |-> PlainName, is_file |-> TRUE, chunks |-> chunks, trailing |-> trailing] :
               chunks \in [1..n -> WalkChunks], trailing \in {0, 3, 7}}
           \cup {[name |-> PlainName, is_file |-> TRUE, chunks |-> CutShort(chunks),
                  trailing |-> 0] :
                    chunks \in {c \in [1..n -> WalkChunks] : n > 0 /\ c[n].size > 0}} :
           n \in 0..MaxChunks}

InitWalk ==
    /\ IdleFix
    /\ IdleIdx
    /\ IdleTimecode
    /\ IdleFrameRate
    /\ wall_secs = FZero
    /\ output = ""
    /\ filename = <<>>
    /\ filename_tc = None
    /\ entries = <<>>
    /\ state = None
    /\ report = <<>>
    /\ raised = None
    /\ pc = "open"
    /\ wav \in WalkFiles
    /\ offset = 0
    /\ walked = None

\* metadata = WavMetadata(path); open(path); file.seek(WAV_HDR_LEN_BYTES)
OpenWavFile ==
    /\ pc = "open"
    /\ walked' = WavMetadata(wav.name, _find_tc_in_filename(wav.name))
    /\ offset' = WAV_HDR_LEN_BYTES
    /\ pc' = "walk"
    /\ UNCHANGED <<fr, tc, wall_secs, tc_left, framerate_vars, output, wav_vars,
                   fix_vars, wav, idx_vars>>

\* One iteration of the loop that ends with subchunk.skip(), or with an
\* exception other than EOFError, which leaves _read_wav_file.
WalkChunk ==
    /\ pc = "walk"
    /\ _header_at(wav, offset)
    /\ \E returned \in {_read_chunk(walked, _chunk_at(wav, offset))} :
           IF IsException(returned)
           THEN /\ raised' = returned
                /\ pc' = "raised"
                /\ offset' = _tell_after_read(offset, _chunk_at(wav, offset))
                /\ UNCHANGED walked
           ELSE /\ walked' = returned
                /\ offset' = _tell_after_skip(offset, _chunk_at(wav, offset))
                /\ UNCHANGED <<pc, raised>>
    /\ UNCHANGED <<fr, tc, wall_secs, tc_left, framerate_vars, output,
                   filename, filename_tc, entries, state, report,
                   fix_vars, wav, idx_vars>>

\* The iteration in which chunk.Chunk raises EOFError: break, return metadata.
WalkEof ==
    /\ pc = "walk"
    /\ ~_header_at(wav, offset)
    /\ offset' = _tell_at_eof(wav, offset)
    /\ pc' = "returned"
    /\ UNCHANGED <<fr, tc, wall_secs, tc_left, framerate_vars, output, wav_vars,
                   fix_vars, wav, walked, idx_vars>>

NextWalk == OpenWavFile \/ WalkChunk \/ WalkEof

\* The interpreter keeps executing the loop.
SpecWalk == InitWalk /\ [][NextWalk]_vars /\ WF_vars(NextWalk)

\* ------------------------------------------------------------------------
\* _frame_idx_to_tc, then _tc_to_frame_idx on the timecode it gave.

MaxIdx == 2

\* Frame indexes: small ones of either sign; the frames of a minute, of ten
\* minutes and of an hour at the frame rates, with their neighbours; and
\* indexes from 2^53 on (9007199254799999, 72057594038118120,
\* 1152921504607056000 and 18446744073709795212) with theirs.
MinuteAndHourFrames ==
    {1440, 1798, 1800, 3596, 3600, 17982, 35964, 86400, 107892, 215784, 216000}

HugeFrames ==
    {<<9, 719, 92547, 99999>>, <<72, 5759, 40381, 18120>>,
     <<1152, 92150, 46070, 56000>>, <<18446, 74407, 37097, 95212>>}

FrameIndexes ==
    {PyFromInt(k) : k \in (0 - MaxIdx)..MaxIdx}
    \cup {PyFromInt(b + d) : b \in MinuteAndHourFrames, d \in (0 - 1)..1}
    \cup {PyAdd(PyFromGroups(g), PyFromInt(d)) : g \in HugeFrames, d \in (0 - 1)..1}

InitFrameIdx ==
    /\ IdleFrameRate
    /\ IdleWav
    /\ IdleFix
    /\ IdleWalk
    /\ output = ""
    /\ wall_secs = FZero
    /\ tc_left = None
    /\ tc = None
    /\ fr \in Rates
    /\ idx \in FrameIndexes
    /\ idx_back = None
    /\ pc = "idx"

\* tc = _frame_idx_to_tc(idx, fr); the exception is not caught.
FrameIdxToTc ==
    /\ pc = "idx"
    /\ \E returned \in {_frame_idx_to_tc_big(idx, fr)} :
           IF IsException(returned)
           THEN /\ raised' = returned
                /\ pc' = "raised"
                /\ UNCHANGED tc
           ELSE /\ tc' = returned
                /\ pc' = "tc"
                /\ UNCHANGED raised
    /\ UNCHANGED <<fr, wall_secs, tc_left, framerate_vars, output, filename, filename_tc,
                   entries, state, report, fix_vars, walk_vars, idx_vars>>

\* idx_back = _tc_to_frame_idx(tc, fr)
TcToFrameIdx ==
    /\ pc = "tc"
    /\ idx_back' = _tc_to_frame_idx_big(tc, fr)
    /\ pc' = "back"
    /\ UNCHANGED <<fr, tc, wall_secs, tc_left, framerate_vars, output, wav_vars,
                   fix_vars, walk_vars, idx>>

NextFrameIdx == FrameIdxToTc \/ TcToFrameIdx

SpecFrameIdx == InitFrameIdx /\ [][NextFrameIdx]_vars

\* ------------------------------------------------------------------------
\* Properties of the timecode engine (checked under SpecTimecode).
\* ------------------------------------------------------------------------

\* floor(|s| * frames / per_wall_secs) in exact arithmetic: the index of the
\* frame whose boundary is the last one at or before the wall time s.
ExactFrameIdx(s, r) ==
    IF FIsZero(s) THEN 0
    ELSE BigShiftRight(
             BigDivSmall(BigMulSmall(s.m, _FRAME_RATES[r.fps].frames),
                         _FRAME_RATES[r.fps].per_wall_secs).q,
             0 - s.e)

\* A label drop-frame timecode skips: the first frames of the first second of
\* every minute that is not a multiple of ten.
SkippedFrames(r) == IF r.fps = FPS_29_970 THEN 2 ELSE 4

IsSkippedLabel(t, r) ==
    /\ r.drop_type = DROP
    /\ t.ss = 0
    /\ t.mm % 10 # 0
    /\ t.ff < SkippedFrames(r)

\* C1: for every supported frame rate and every timecode tc with mm < 60,
\* ss < 60 and ff < int_fps(rate), wall_secs_to_tc_left(tc_to_wall_secs(tc,
\* rate), rate) == tc.
C1_RoundTrip ==
    (pc = "done" /\ tc.kind = "Timecode") => TimecodeEq(tc, tc_left)

\* C2: at 29.97 drop and 59.94 drop wall_secs_to_tc_left never returns a
\* skipped label; the frame after MM:59:29 (MM:59:59 at 59.94) is labelled
\* (MM+1):00:02 (:04) when (MM+1) mod 10 # 0 and (MM+1):00:00 otherwise (the
\* hour advancing after minute 59); and wall time 60.06 s at 29.97 drop gives
\* 00:01:00:02.
FrameAfterMinuteEnd(t, r) ==
    Timecode(t.hh + (t.mm + 1) \div 60,
             (t.mm + 1) % 60,
             0,
             IF (t.mm + 1) % 10 # 0 THEN SkippedFrames(r) ELSE 0)

C2_DropFrameLabelling ==
    (pc = "done" /\ fr.drop_type = DROP /\ tc_left.kind = "Timecode") =>
        /\ ~IsSkippedLabel(tc_left, fr)
        /\ (tc_left.ss = 59 /\ tc_left.ff = int_fps(fr) - 1) =>
               _frame_idx_to_tc(
                   MathFloor(wall_secs_to_fractional_frame_idx(wall_secs, fr)) + 1,
                   fr) = FrameAfterMinuteEnd(tc_left, fr)
        /\ (fr.fps = FPS_29_970 /\ wall_secs = FDivInt(6006, 100)) =>
               tc_left = Timecode(0, 1, 0, 2)

C2_Witness ==
    /\ pc = "done"
    /\ fr = FrameRate(FPS_29_970, DROP)
    /\ tc_left.kind = "Timecode"
    /\ tc_left.ss = 59
    /\ tc_left.ff = 29
    /\ tc_left.mm % 10 = 3

\* C3 as stated: at 29.97 drop, timecode 00:01:00:00 corresponds to a later
\* wall time than the non-drop calculation gives.
C3_DropIsLater ==
    (pc = "wall_secs" /\ tc = Timecode(0, 1, 0, 0)
        /\ fr = FrameRate(FPS_29_970, DROP)) =>
        FLess(tc_to_wall_secs(tc, FrameRate(FPS_29_970, NON_DROP)), wall_secs)

\* C3 as amended: at 29.97 drop, timecode 00:01:00:00 corresponds to an
\* earlier wall time than the non-drop calculation gives (the two dropped
\* frame numbers bring the label forward).
C3_DropIsEarlier ==
    (pc = "wall_secs" /\ tc = Timecode(0, 1, 0, 0)
        /\ fr = FrameRate(FPS_29_970, DROP)) =>
        FLess(wall_secs, tc_to_wall_secs(tc, FrameRate(FPS_29_970, NON_DROP)))

C3_Witness ==
    /\ pc = "wall_secs"
    /\ tc = Timecode(0, 1, 0, 0)
    /\ fr = FrameRate(FPS_29_970, DROP)

\* C4: tc_to_wall_secs(tc, rate) is frame_idx * period / frames_per_period
\* (as a float: the quotient rounded once), with frame_idx = int_fps * (3600 hh
\* + 60 mm + ss) + ff - (hh * 6 * D + floor(mm / 10) * D + (mm mod 10) * (D / 9)),
\* D = 18 at 29.97 drop, 36 at 59.94 drop, 0 at every non-drop rate, and
\* int_fps = 24, 24, 25, 30, 30, 48, 48, 50, 60, 60 for the ten rates.
ClaimedIntFps(r) ==
    CASE r.fps \in {FPS_23_976, FPS_24_000} -> 24
      [] r.fps = FPS_25_000 -> 25
      [] r.fps \in {FPS_29_970, FPS_30_000} -> 30
      [] r.fps \in {FPS_47_952, FPS_48_000} -> 48
      [] r.fps = FPS_50_000 -> 50
      [] r.fps \in {FPS_59_940, FPS_60_000} -> 60

ClaimedD(r) ==
    IF r.drop_type = NON_DROP THEN 0
    ELSE IF r.fps = FPS_29_970 THEN 18 ELSE 36

ClaimedFrameIdx(t, r) ==
    ClaimedIntFps(r) * (3600 * t.hh + 60 * t.mm + t.ss) + t.ff
      - (t.hh * 6 * ClaimedD(r)
           + (t.mm \div 10) * ClaimedD(r)
           + (t.mm % 10) * (ClaimedD(r) \div 9))

C4_TcToWallSecsFormula ==
    (pc \in {"wall_secs", "done"} /\ tc.kind = "Timecode") =>
        wall_secs = FDivInt(ClaimedFrameIdx(tc, fr) * _FRAME_RATES[fr.fps].per_wall_secs,
                            _FRAME_RATES[fr.fps].frames)

C4_Witness ==
    /\ pc = "wall_secs"
    /\ tc = Timecode(1, 33, 59, 5)
    /\ fr = FrameRate(FPS_59_940, DROP)

\* C5: for every supported frame rate and every wall time s >= 0,
\* wall_secs_to_tc_left(s, rate) is the label of frame index
\* floor(s * frames_per_period / period): a wall time strictly between the
\* boundaries of frames n and n+1 yields the label of frame n, never n+1.
C5_LeftSemantics ==
    (pc = "done" /\ ~wall_secs.neg /\ tc_left.kind = "Timecode") =>
        tc_left = _frame_idx_to_tc(ExactFrameIdx(wall_secs, fr), fr)

\* ------------------------------------------------------------------------
\* Properties of the frame rate readers (checked under SpecFrameRate).
\* ------------------------------------------------------------------------

AmbiguousDropTokens ==
    {<<"2", "9", ".", "9", "7">>, <<"2", "9", ".", "9", "7", "0">>,
     <<"5", "9", ".", "9", "4">>, <<"5", "9", ".", "9", "4", "0">>}

QualifiedTexts(qualifiers) ==
    {tok \o Spaces(n) \o qual :
        tok \in AmbiguousDropTokens, n \in 0..MaxSpaces,
        qual \in UNION {AnyCase(q) : q \in qualifiers}}

DropQualifiedTexts == QualifiedTexts(DropQualifiers)
NonDropQualifiedTexts == QualifiedTexts(NonDropQualifiers)

FpsOfToken(str) == IF str[1] = "2" THEN FPS_29_970 ELSE FPS_59_940

\* C6: on a 29.97 or 59.94 token ("29.97", "29.970", "59.94", "59.940")
\* parse_framerate_within raises when no qualifier follows; with a drop
\* qualifier ("drop", "d", "df", in any letter case) it returns
\* FrameRate(fps, DROP), and with a non-drop qualifier ("non-drop", "nd",
\* "ndf") FrameRate(fps, NON_DROP).
C6_QualifierRequired ==
    (pc = "parsed") =>
        /\ (text \in AmbiguousDropTokens) =>
               result = Exception("ambiguous; specify drop or non-drop")
        /\ (text \in DropQualifiedTexts) =>
               result = FrameRate(FpsOfToken(text), DROP)
        /\ (text \in NonDropQualifiedTexts) =>
               result = FrameRate(FpsOfToken(text), NON_DROP)

C6_Witness ==
    /\ pc = "parsed"
    /\ level = REQUIRE_FULL_MATCH
    /\ text = <<"5", "9", ".", "9", "4", "0", " ", "D", "f">>
    /\ result = FrameRate(FPS_59_940, DROP)

IntegerLookingTexts == {<<"2", "4">>, <<"3", "0">>, <<"4", "8">>, <<"6", "0">>}

WholeFpsOf(str) ==
    CASE str = <<"2", "4">> -> FPS_24_000
      [] str = <<"3", "0">> -> FPS_30_000
      [] str = <<"4", "8">> -> FPS_48_000
      [] str = <<"6", "0">> -> FPS_60_000

IsWholeFramerate(str) ==
    /\ re_match(str) # None
    /\ re_match(str).end = Len(str) + 1

\* C8: at REQUIRE_FULL_MATCH parse_framerate_within returns a FrameRate only
\* when the whole whitespace-trimmed text is a framerate, and returns None for
\* a text with further characters after the framerate; at SEARCH_WITHIN it
\* accepts a framerate anywhere in the text.
C8_MatchLevels ==
    (pc = "parsed") =>
        /\ (level = REQUIRE_FULL_MATCH /\ IsFrameRate(result)) =>
               IsWholeFramerate(strip(text))
        /\ (level = REQUIRE_FULL_MATCH /\ re_match(strip(text)) # None
              /\ ~IsWholeFramerate(strip(text))) =>
               result = None
        /\ (level = SEARCH_WITHIN /\ \E i \in 1..Len(text) : TwoDigitsAt(text, i)) =>
               result # None

\* C9: FrameRate raises for DROP with an fps other than 29.97 and 59.94, so a
\* FrameRate that parse_framerate_within or prompt_framerate returns is drop
\* only at 29.97 or 59.94; "24 drop" and "23.976 df" yield no FrameRate.
C9_DropOnlyForDropStandards ==
    /\ \A f \in FramesPerSec \ {FPS_29_970, FPS_59_940} :
           IsException(FrameRate(f, DROP))
    /\ (pc \in {"parsed", "prompted"} /\ IsFrameRate(result)
          /\ result.drop_type = DROP) =>
           result.fps \in {FPS_29_970, FPS_59_940}
    /\ (pc = "parsed"
          /\ text \in {<<"2", "4", " ", "d", "r", "o", "p">>,
                       <<"2", "3", ".", "9", "7", "6", " ", "d", "f">>}) =>
           ~IsFrameRate(result)

C9_Witness ==
    /\ pc = "parsed"
    /\ text = <<"2", "3", ".", "9", "7", "6", " ", "d", "f">>
    /\ result = Exception("not a valid drop frame standard")

\* ------------------------------------------------------------------------
\* Properties of the duration formatter (checked under SpecDurStr).
\* ------------------------------------------------------------------------

\* floor(|x| + 1/2) in exact arithmetic.
RoundHalfUp(x) == FFloor(x) + (FFloorScaled(x, 1) % 2)

DurStrOf(negative, m, h, mi, sec) ==
    (IF negative /\ m # 0 THEN "(-) " ELSE "")
      \o (IF h > 0 THEN ToString(h) \o "h " ELSE "")
      \o (IF h > 0 \/ mi > 0
          THEN (IF h > 0 /\ mi < 10 THEN "0" ELSE "") \o ToString(mi) \o "m "
          ELSE "")
      \o (IF sec < 10 THEN "0" ELSE "") \o ToString(sec) \o "s"

\* C10: wall_secs_to_durstr(s) is, with m = floor(|s| + 0.5), h = m div 3600,
\* mi = (m mod 3600) div 60 and sec = m mod 60: "(-) " iff s < 0 and m # 0,
\* then "{h}h " iff h > 0, then the minutes iff h > 0 or mi > 0 (padded to two
\* digits iff h > 0) and "m ", then the seconds padded to two digits and "s".
C10_DurStr ==
    (pc = "formatted") =>
        output = DurStrOf(FLess(wall_secs, FZero),
                          RoundHalfUp(wall_secs),
                          RoundHalfUp(wall_secs) \div 3600,
                          (RoundHalfUp(wall_secs) % 3600) \div 60,
                          RoundHalfUp(wall_secs) % 60)

\* ------------------------------------------------------------------------
\* Properties of the file name timecodes (checked under SpecFilenameTc).
\* ------------------------------------------------------------------------

\* A run of 7 or 8 digits starts at s[i], with a non-digit on either side.
DelimitedRunAt(s, i) ==
    /\ NonDigitAt(s, i - 1)
    /\ \E n \in {7, 8} : DigitsAt(s, i, n) /\ NonDigitAt(s, i + n)

DelimitedRunStarts(s) == {i \in 2..Len(s) : DelimitedRunAt(s, i)}

\* The rightmost run of 7 or 8 digits delimited by non-digits.
RightmostRun(s) ==
    LET i == CHOOSE j \in DelimitedRunStarts(s) : \A k \in DelimitedRunStarts(s) : k <= j
    IN  IF DigitsAt(s, i, 8) THEN SubSeq(s, i, i + 7) ELSE SubSeq(s, i, i + 6)

\* C12: _find_tc_in_filename gives the timecode after "TC" with explicit
\* confidence where the name holds one; otherwise, where the name holds runs
\* of 7 or 8 digits delimited by non-digits, the timecode of the rightmost such
\* run with implicit confidence; and none where the name holds no number of
\* the timecode pattern at all.
C12_FindTcInFilename ==
    pc = "found" =>
        IF _TC_EXPLICIT_FILENAME_PATTERN_search(filename, 1) # <<>>
        THEN filename_tc = FilenameTimecode(
                 parse_timecode_str(_TC_EXPLICIT_FILENAME_PATTERN_search(filename, 1)),
                 EXPLICIT)
        ELSE IF DelimitedRunStarts(filename) # {}
        THEN filename_tc = FilenameTimecode(
                 parse_timecode_str(RightmostRun(filename)), IMPLICIT)
        ELSE (\A i \in 1..Len(filename) : _TC_NUMBERS_FILENAME_PATTERN_end(filename, i) = 0)
                 => filename_tc = None

\* ------------------------------------------------------------------------
\* Properties of a run (checked under SpecRun).
\* ------------------------------------------------------------------------

\* read_wav_files has returned.
WasRead == state # None

\* The timecode _read_wav_file found in the name of file k.
FoundInName(k) == _find_tc_in_filename(state.wav_files[k].filename)

HasConfidence(filename_timecode, confidence) ==
    filename_timecode # None /\ filename_timecode.confidence = confidence

\* C11: after read_wav_files, if the name of any file read holds an explicit
\* timecode, then no file has an implicit filename timecode (each one found was
\* cleared to none) and every explicit one is as it was found; if no name holds
\* an explicit one, every file's filename timecode is as it was found.
C11_ConfidenceResolution ==
    WasRead =>
        IF \E k \in DOMAIN state.wav_files : HasConfidence(FoundInName(k), EXPLICIT)
        THEN \A k \in DOMAIN state.wav_files :
                /\ ~HasConfidence(state.wav_files[k].metadata.tc_in_filename, IMPLICIT)
                /\ HasConfidence(FoundInName(k), IMPLICIT)
                       => state.wav_files[k].metadata.tc_in_filename = None
                /\ HasConfidence(FoundInName(k), EXPLICIT)
                       => state.wav_files[k].metadata.tc_in_filename = FoundInName(k)
        ELSE \A k \in DOMAIN state.wav_files :
                state.wav_files[k].metadata.tc_in_filename = FoundInName(k)

\* A directory was read that holds a name with an explicit timecode and a name
\* with an implicit one, which was cleared.
C11_Witness ==
    /\ WasRead
    /\ \E j, k \in DOMAIN state.wav_files :
           /\ HasConfidence(FoundInName(j), EXPLICIT)
           /\ HasConfidence(FoundInName(k), IMPLICIT)
           /\ state.wav_files[k].metadata.tc_in_filename = None

\* check_wav_files has returned.
WasChecked == pc \in {"report", "done"}

\* The directory entry file k was read from, and the fields of its bext chunk.
EntryOf(k) ==
    entries[CHOOSE i \in DOMAIN entries :
                entries[i].is_file /\ entries[i].name = state.wav_files[k].filename]

HasBext(k) == \E i \in DOMAIN EntryOf(k).chunks : EntryOf(k).chunks[i].name = "bext"

BextOf(k) ==
    EntryOf(k).chunks[CHOOSE i \in DOMAIN EntryOf(k).chunks :
                          EntryOf(k).chunks[i].name = "bext"].fields

Failed(k, file_check) == Contains(state.wav_files[k].failed_checks, file_check)

\* C13: UNNATURALLY_LOUD is in a file's failed checks if and only if the file
\* has BWF data of version 2 or more and its MaxTruePeakLevel field is at least
\* -30, its MaxMomentaryLoudness at least -300, its MaxShortTermLoudness at
\* least -600 or its LoudnessValue at least -900 (hundredths); at version 0 and
\* 1 it is absent whatever the loudness fields hold.
C13_UnnaturallyLoud ==
    WasChecked =>
        \A k \in DOMAIN state.wav_files :
            Failed(k, UNNATURALLY_LOUD)
                <=> /\ HasBext(k)
                    /\ BextOf(k).version >= 2
                    /\ \/ BextOf(k).max_true_peak_level >= -30
                       \/ BextOf(k).max_momentary_loudness >= -300
                       \/ BextOf(k).max_short_term_loudness >= -600
                       \/ BextOf(k).loudness_value >= -900

\* A version 2 file whose only loud field lies on its threshold was checked
\* and flagged.
C13_Witness ==
    /\ WasChecked
    /\ \E k \in DOMAIN state.wav_files :
           /\ HasBext(k)
           /\ BextOf(k).version = 2
           /\ BextOf(k).max_true_peak_level = -30
           /\ BextOf(k).max_momentary_loudness < -300
           /\ BextOf(k).max_short_term_loudness < -600
           /\ BextOf(k).loudness_value < -900
           /\ Failed(k, UNNATURALLY_LOUD)

\* The start of file k as _check_wav_file computes it.
StartSecs(k) == bwf_start_time_secs(state.wav_files[k].metadata)

\* C14: when check_wav_files returns, a file without a bext chunk has
\* MISSING_BWF among its failed checks and none of STARTS_AT_TIME_ZERO,
\* FRACTIONAL_FRAME_START_TC, MISSING_UMID, FILENAME_TC_MISMATCH and
\* UNNATURALLY_LOUD; a file with a bext chunk of version 0 or 1 has no
\* MISSING_BWF, and each of the four other checks that do not concern loudness
\* is among its failed checks exactly if its condition holds.
C14_MissingBwfShortCircuit ==
    WasChecked =>
        \A k \in DOMAIN state.wav_files :
            /\ ~HasBext(k) =>
                  /\ Failed(k, MISSING_BWF)
                  /\ \A file_check \in {STARTS_AT_TIME_ZERO, FRACTIONAL_FRAME_START_TC,
                                        MISSING_UMID, FILENAME_TC_MISMATCH,
                                        UNNATURALLY_LOUD} : ~Failed(k, file_check)
            /\ (HasBext(k) /\ BextOf(k).version <= 1) =>
                  /\ ~Failed(k, MISSING_BWF)
                  /\ Failed(k, STARTS_AT_TIME_ZERO) <=> BextOf(k).time_reference = 0
                  /\ Failed(k, FRACTIONAL_FRAME_START_TC)
                         <=> FLess(FDivInt(1, 100),
                                   FMod1(wall_secs_to_fractional_frame_idx(StartSecs(k), fr)))
                  /\ Failed(k, MISSING_UMID)
                         <=> (BextOf(k).version = 0 \/ BextOf(k).umid = UmidZero)
                  /\ Failed(k, FILENAME_TC_MISMATCH)
                         <=> /\ state.wav_files[k].metadata.tc_in_filename # None
                             /\ state.wav_files[k].metadata.tc_in_filename.tc
                                    # wall_secs_to_tc_left(StartSecs(k), fr)

\* A file with a bext chunk of version 0 was checked and failed three of the
\* four checks.
C14_Witness ==
    /\ WasChecked
    /\ \E k \in DOMAIN state.wav_files :
           /\ HasBext(k)
           /\ BextOf(k).version = 0
           /\ Failed(k, FRACTIONAL_FRAME_START_TC)
           /\ Failed(k, MISSING_UMID)
           /\ Failed(k, FILENAME_TC_MISMATCH)
           /\ ~Failed(k, STARTS_AT_TIME_ZERO)

\* The InternalState as read_wav_files left it, before check_wav_files, with
\* its files in the order order[1], order[2], ...
ReadInOrder(order) ==
    InternalState([i \in DOMAIN order |->
                      [state.wav_files[order[i]] EXCEPT !.failed_checks = <<>>]])

\* C15: after check_wav_files, MULTIPLE_BIT_DEPTHS is in failed_cross_checks if
\* and only if two files differ in bit depth, MULTIPLE_SAMPLE_RATES if and only
\* if two files differ in sample rate, and failed_cross_checks is what
\* check_wav_files yields on the same files in every other order.
C15_FormatCrossChecks ==
    pc = "report" =>
        /\ Contains(state.failed_cross_checks, MULTIPLE_BIT_DEPTHS)
               <=> \E j, k \in DOMAIN state.wav_files :
                       state.wav_files[j].metadata.fmt_data.bit_depth
                           # state.wav_files[k].metadata.fmt_data.bit_depth
        /\ Contains(state.failed_cross_checks, MULTIPLE_SAMPLE_RATES)
               <=> \E j, k \in DOMAIN state.wav_files :
                       state.wav_files[j].metadata.fmt_data.sample_rate_hz
                           # state.wav_files[k].metadata.fmt_data.sample_rate_hz
        /\ \A order \in Permutations(DOMAIN state.wav_files) :
               check_wav_files(fr, ReadInOrder(order)).failed_cross_checks
                   = state.failed_cross_checks

\* Three files were checked, two of one bit depth and sample rate and one of
\* another sample rate only, and only MULTIPLE_SAMPLE_RATES was raised.
C15_Witness ==
    /\ pc = "report"
    /\ Len(state.wav_files) >= 3
    /\ Contains(state.failed_cross_checks, MULTIPLE_SAMPLE_RATES)
    /\ ~Contains(state.failed_cross_checks, MULTIPLE_BIT_DEPTHS)

\* Files j and k both hold BWF data of version 1 or more with the same UMID,
\* which is not all zeros.
ShareUmid(j, k) ==
    /\ j # k
    /\ HasBext(j) /\ BextOf(j).version >= 1 /\ BextOf(j).umid # UmidZero
    /\ HasBext(k) /\ BextOf(k).version >= 1
    /\ BextOf(j).umid = BextOf(k).umid

\* C16: after check_wav_files, NON_UNIQUE_UMIDS is in failed_cross_checks, and
\* then once, if and only if two distinct files both have BWF data, neither
\* flagged MISSING_UMID, and hold equal UMIDs; a file with BWF data is flagged
\* MISSING_UMID exactly if its version is 0 or its UMID is all zeros, so files
\* sharing an all-zero UMID do not raise the check.
C16_NonUniqueUmids ==
    pc = "report" =>
        /\ \A k \in DOMAIN state.wav_files :
               HasBext(k) =>
                   (Failed(k, MISSING_UMID)
                        <=> (BextOf(k).version = 0 \/ BextOf(k).umid = UmidZero))
        /\ Cardinality({i \in DOMAIN state.failed_cross_checks :
                           state.failed_cross_checks[i] = NON_UNIQUE_UMIDS})
               = IF \E j, k \in DOMAIN state.wav_files :
                        /\ ShareUmid(j, k)
                        /\ ~Failed(j, MISSING_UMID)
                        /\ ~Failed(k, MISSING_UMID)
                 THEN 1 ELSE 0

\* Four files were checked, two sharing a UMID and two with all-zero UMIDs,
\* and NON_UNIQUE_UMIDS was raised.
C16_Witness ==
    /\ pc = "report"
    /\ Contains(state.failed_cross_checks, NON_UNIQUE_UMIDS)
    /\ \E j, k \in DOMAIN state.wav_files : ShareUmid(j, k)
    /\ \E j, k \in DOMAIN state.wav_files :
           /\ j # k
           /\ HasBext(j) /\ BextOf(j).umid = UmidZero
           /\ HasBext(k) /\ BextOf(k).umid = UmidZero

\* The file names the report lists under "These files have the same UMID".
ListedForUmids ==
    UNION {{report[i].files[n] : n \in DOMAIN report[i].files} :
           i \in {r \in DOMAIN report : report[r].kind = "same_umid"}}

\* C17: when NON_UNIQUE_UMIDS was raised, the files the report lists for it
\* are exactly the files that are not flagged MISSING_UMID and whose UMID
\* another file holds too.
C17_ReportedUmidFiles ==
    (pc = "done" /\ Contains(state.failed_cross_checks, NON_UNIQUE_UMIDS)) =>
        ListedForUmids
            = {state.wav_files[k].filename :
                  k \in {f \in DOMAIN state.wav_files :
                            /\ HasBext(f)
                            /\ ~Failed(f, MISSING_UMID)
                            /\ \E j \in DOMAIN state.wav_files : ShareUmid(j, f)}}

\* C18: validation never throws: when every file read has fmt data, whatever
\* its fields hold, check_wav_files (which calls _check_wav_file on each file)
\* raises no exception.
C18_ValidationNeverThrows ==
    (WasRead /\ \A k \in DOMAIN state.wav_files :
                    state.wav_files[k].metadata.fmt_data # None)
        => ~IsException(raised)

\* C19: _read_wav_file never returns a WavMetadata without fmt data: every
\* file of the InternalState that read_wav_files returns has fmt data.
C19_FmtRequired ==
    WasRead => \A k \in DOMAIN state.wav_files :
                   state.wav_files[k].metadata.fmt_data # None

\* A .wav file that ends within the fixed record of its bext chunk.
EndsWithinBext(entry) ==
    /\ entry.is_file
    /\ endswith(entry.name, <<".", "w", "a", "v">>)
    /\ \E i \in DOMAIN entry.chunks :
           /\ entry.chunks[i].name = "bext"
           /\ entry.chunks[i].avail < entry.chunks[i].size
           /\ entry.chunks[i].avail < _BWF_STRUCT_SIZE

\* C20: when a file of the directory ends before the 602-byte fixed record
\* of its bext chunk is complete, read_wav_files still returns, with every
\* file of the directory read and the BWF data of that file absent.
C20_TruncatedBextIsAbsent ==
    (pc # "read" /\ \E i \in DOMAIN entries : EndsWithinBext(entries[i])) =>
        /\ WasRead
        /\ \A k \in DOMAIN state.wav_files :
               EndsWithinBext(EntryOf(k)) => state.wav_files[k].metadata.bwf_data = None

\* The frame rate of the run: frames in per_wall_secs seconds.
RateInfo == _FRAME_RATES[fr.fps]

\* The start of file k in frames, as a fraction: StartFramesNum(k) over
\* StartFramesDen(k), both whole numbers.
StartFramesNum(k) == BextOf(k).time_reference * RateInfo.frames

StartFramesDen(k) ==
    state.wav_files[k].metadata.fmt_data.sample_rate_hz * RateInfo.per_wall_secs

\* The fractional part of that fraction is more than one hundredth.
StartsWithinFrame(k) ==
    (StartFramesNum(k) % StartFramesDen(k)) > (StartFramesDen(k) \div 100)

\* C24: FRACTIONAL_FRAME_START_TC is in a file's failed checks if and only if
\* the file has BWF data and the fractional part of
\* (samples_since_origin / sample_rate_hz) * frames_per_period / period is
\* strictly more than 0.01 at the frame rate of the run; a start on a frame
\* boundary and a fractional part of exactly 0.01 do not raise it.
C24_FractionalFrameStart ==
    WasChecked =>
        \A k \in DOMAIN state.wav_files :
            Failed(k, FRACTIONAL_FRAME_START_TC)
                <=> (HasBext(k) /\ StartsWithinFrame(k))

\* A file that starts exactly 15 frames after the origin at 29.97 fps was
\* checked.
C24_OnBoundary ==
    /\ WasChecked
    /\ fr.fps = FPS_29_970
    /\ \E k \in DOMAIN state.wav_files : HasBext(k) /\ BextOf(k).time_reference = 24024

\* C25: FILENAME_TC_MISMATCH is in a file's failed checks if and only if the
\* file has BWF data, a filename timecode is left after the confidence
\* resolution, and that timecode differs in hh, mm, ss or ff from
\* wall_secs_to_tc_left of samples_since_origin / sample_rate_hz at the frame
\* rate of the run.
C25_FilenameTcMismatch ==
    WasChecked =>
        \A k \in DOMAIN state.wav_files :
            Failed(k, FILENAME_TC_MISMATCH)
                <=> /\ HasBext(k)
                    /\ state.wav_files[k].metadata.tc_in_filename # None
                    /\ \E part \in {"hh", "mm", "ss", "ff"} :
                           state.wav_files[k].metadata.tc_in_filename.tc[part]
                               # wall_secs_to_tc_left(StartSecs(k), fr)[part]

\* A file whose name holds 00:00:00:01 and whose BWF start is 00:00:00:00 (the
\* two differ in ff only) was checked and flagged, at version 2.
C25_Witness ==
    /\ WasChecked
    /\ \E k \in DOMAIN state.wav_files :
           /\ HasBext(k)
           /\ BextOf(k).version = 2
           /\ state.wav_files[k].metadata.tc_in_filename # None
           /\ state.wav_files[k].metadata.tc_in_filename.tc = Timecode(0, 0, 0, 1)
           /\ wall_secs_to_tc_left(StartSecs(k), fr) = Timecode(0, 0, 0, 0)
           /\ Failed(k, FILENAME_TC_MISMATCH)

\* The order in which _check_wav_file and check_wav_files append.
FileCheckOrder ==
    <<NONSTANDARD_FORMAT, LOW_BIT_DEPTH, LOW_SAMPLE_RATE, VERY_SHORT_DURATION,
      MISSING_BWF, STARTS_AT_TIME_ZERO, FRACTIONAL_FRAME_START_TC, MISSING_UMID,
      FILENAME_TC_MISMATCH, UNNATURALLY_LOUD>>

CrossCheckOrder == <<MULTIPLE_BIT_DEPTHS, MULTIPLE_SAMPLE_RATES, NON_UNIQUE_UMIDS>>

RankIn(order, check_kind) == CHOOSE r \in DOMAIN order : order[r] = check_kind

\* Every entry is of the order and stands before the entries of a later rank:
\* no kind twice, and the kinds in the fixed order.
InFixedOrder(checks, order) ==
    /\ \A i \in DOMAIN checks : Contains(order, checks[i])
    /\ \A i, j \in DOMAIN checks :
           i < j => RankIn(order, checks[i]) < RankIn(order, checks[j])

\* C27: after one run of check_wav_files each per-file kind stands at most once
\* in a file's failed_checks and each cross-file kind at most once in
\* failed_cross_checks, in the fixed order (MISSING_BWF and STARTS_AT_TIME_ZERO
\* never both), and a second run on the same metadata and frame rate gives the
\* same result.
C27_StableOrder ==
    pc = "report" =>
        /\ \A k \in DOMAIN state.wav_files :
               /\ InFixedOrder(state.wav_files[k].failed_checks, FileCheckOrder)
               /\ ~(Failed(k, MISSING_BWF) /\ Failed(k, STARTS_AT_TIME_ZERO))
        /\ InFixedOrder(state.failed_cross_checks, CrossCheckOrder)
        /\ check_wav_files(fr, ReadInOrder([i \in DOMAIN state.wav_files |-> i])) = state

\* Several files were checked: two cross-file checks were raised and one
\* file failed two checks, so both lists have an order to keep.
C27_Witness ==
    /\ pc = "report"
    /\ Len(state.failed_cross_checks) >= 2
    /\ \E k \in DOMAIN state.wav_files : Len(state.wav_files[k].failed_checks) >= 2

\* ------------------------------------------------------------------------
\* The UMID fix.

FixEnded == pc \in {"umids_fixed", "fix_aborted"}

\* NON_UNIQUE_UMIDS was raised and the user accepted the fix.
FixAsked ==
    /\ Contains(state.failed_cross_checks, NON_UNIQUE_UMIDS)
    /\ prompt_should_fix_umids(typed)

\* The directory as it was on disk when the fix began.
DiskBefore ==
    IF edited = None THEN entries
    ELSE [entries EXCEPT ![edited.file].chunks = EditedChunks(@, edited.how)]

Rewritten(j) == disk[j] # DiskBefore[j]

\* The BwfMetadata read from the file that is the j-th on disk.
MemoryOf(j) ==
    state.wav_files[CHOOSE k \in DOMAIN state.wav_files :
                        state.wav_files[k].filename = disk[j].name].metadata.bwf_data

HasUmidInMemory(j) == MemoryOf(j) # None /\ MemoryOf(j).version >= 1

SharesEarlierUmid(j) ==
    /\ HasUmidInMemory(j)
    /\ \E i \in 1..(j - 1) : HasUmidInMemory(i) /\ MemoryOf(i).umid = MemoryOf(j).umid

NoVersion0Before(j) == \A i \in 1..(j - 1) : MemoryOf(i) = None \/ MemoryOf(i).version >= 1

\* The 64 bytes a chunk holds from body offset 348 on.
HeldAtUmid(ck) == IF ck.name = "bext" THEN ck.fields.umid ELSE ck.fields.held

\* C21: write_new_umid writes only where the 64 bytes it re-read equal the
\* UMID in memory: every chunk of a file that the fix changed held, just before
\* the fix, the UMID read from that file. When another program has stamped a
\* different UMID into the bext chunk of a file whose turn comes, the run ends
\* with exit code 1 and that file is left as it was.
C21_WriteVerified ==
    FixEnded =>
        /\ \A j \in DOMAIN disk : \A i \in DOMAIN disk[j].chunks :
               disk[j].chunks[i] # DiskBefore[j].chunks[i]
                   => HeldAtUmid(DiskBefore[j].chunks[i]) = MemoryOf(j).umid
        /\ (/\ FixAsked
            /\ edited # None
            /\ edited.how = "umid"
            /\ SharesEarlierUmid(edited.file)
            /\ NoVersion0Before(edited.file))
               => /\ pc = "fix_aborted"
                  /\ raised = SystemExit(1)
                  /\ ~Rewritten(edited.file)

\* A file was rewritten, and the next duplicate, which another program had
\* stamped with a different UMID, ended the run.
C21_Witness ==
    /\ pc = "fix_aborted"
    /\ raised = SystemExit(1)
    /\ edited # None
    /\ edited.how = "umid"
    /\ SharesEarlierUmid(edited.file)
    /\ \E j \in DOMAIN disk : Rewritten(j)

\* Whether the j-th file on disk holds a bext chunk, and the UMID field of
\* the first one.
HasBextOnDisk(j) == \E i \in DOMAIN disk[j].chunks : disk[j].chunks[i].name = "bext"

UmidOnDisk(j) ==
    disk[j].chunks[CHOOSE i \in DOMAIN disk[j].chunks :
                       disk[j].chunks[i].name = "bext"].fields.umid

\* C22: when NON_UNIQUE_UMIDS was raised, the user accepted the fix and no
\* other program touched the files, the pass completes and afterwards the UMID
\* fields of the files that have a bext chunk are pairwise distinct.
C22_FixPassCompletes ==
    (FixEnded /\ FixAsked /\ edited = None) =>
        /\ pc = "umids_fixed"
        /\ \A i, j \in DOMAIN disk :
               (i < j /\ HasBextOnDisk(i) /\ HasBextOnDisk(j))
                   => UmidOnDisk(i) # UmidOnDisk(j)

\* C23: umid and umid_hex are set only at version 1 and later and the four
\* loudness values only at version 2 and later, and no step of the run raises
\* for reading a field that was not set.
C23_VersionGatedFields ==
    WasRead =>
        /\ \A k \in DOMAIN state.wav_files :
               LET bwf_data == state.wav_files[k].metadata.bwf_data
               IN  bwf_data # None =>
                       /\ bwf_data.version < 1 => (bwf_data.umid = None /\ bwf_data.umid_hex = None)
                       /\ bwf_data.version >= 1 => bwf_data.umid = BextOf(k).umid
                       /\ bwf_data.version < 2 =>
                              /\ bwf_data.integrated_lufs = None
                              /\ bwf_data.max_dbtp = None
                              /\ bwf_data.max_momentary_lufs = None
                              /\ bwf_data.max_short_term_lufs = None
                       /\ bwf_data.version >= 2 =>
                              /\ bwf_data.integrated_lufs = _loudness(BextOf(k).loudness_value)
                              /\ bwf_data.max_dbtp = _loudness(BextOf(k).max_true_peak_level)
        /\ raised # Exception("AttributeError")

\* C28: a file the fix has rewritten differs from what it was only in the
\* UMID field of its bext chunk, and there only in bytes 13 to 31, of which
\* bytes 13 to 15 are zero.
C28_RewriteFrame ==
    FixEnded =>
        \A j \in DOMAIN disk :
            Rewritten(j) =>
                /\ disk[j].name = DiskBefore[j].name
                /\ Len(disk[j].chunks) = Len(DiskBefore[j].chunks)
                /\ \A i \in DOMAIN disk[j].chunks :
                       IF disk[j].chunks[i].name # "bext"
                       THEN disk[j].chunks[i] = DiskBefore[j].chunks[i]
                       ELSE /\ [disk[j].chunks[i] EXCEPT !.fields.umid = UmidZero]
                                = [DiskBefore[j].chunks[i] EXCEPT !.fields.umid = UmidZero]
                            /\ \A b \in 1..64 :
                                   \/ b \in 17..32
                                   \/ b \in 14..16 /\ disk[j].chunks[i].fields.umid[b] = 0
                                   \/ disk[j].chunks[i].fields.umid[b]
                                          = DiskBefore[j].chunks[i].fields.umid[b]

\* The files check_wav_files counted for NON_UNIQUE_UMIDS as sharing a UMID.
CountedAsShared(j) ==
    /\ MemoryOf(j) # None
    /\ ~Contains(state.wav_files[j].failed_checks, MISSING_UMID)
    /\ \E i \in DOMAIN disk \ {j} :
           /\ MemoryOf(i) # None
           /\ ~Contains(state.wav_files[i].failed_checks, MISSING_UMID)
           /\ MemoryOf(i).umid = MemoryOf(j).umid

\* C30: when no other program touched the files, the fix rewrites only files
\* counted as sharing a UMID, never the first file holding a UMID, and does
\* not end with an exception.
C30_OnlyCountedFilesRewritten ==
    (FixEnded /\ edited = None) =>
        /\ \A j \in DOMAIN disk :
               Rewritten(j) =>
                   /\ CountedAsShared(j)
                   /\ \E i \in 1..(j - 1) : CountedAsShared(i)
        /\ raised = None

\* ------------------------------------------------------------------------
\* The chunk loop.

\* The size of the last data chunk of a file (0: none).
RECURSIVE LastDataSize(_, _)
LastDataSize(chunks, n) ==
    IF n = 0 THEN 0
    ELSE IF chunks[n].name = "data" THEN chunks[n].size
    ELSE LastDataSize(chunks, n - 1)

HasChunk(chunks, name) == \E i \in DOMAIN chunks : chunks[i].name = name

\* C26: the chunk loop of _read_wav_file ends on every file; every iteration
\* but the one that meets the end of the file moves the file position on by at
\* least the eight bytes of a chunk header; where fewer than eight bytes are
\* left the loop ends without an exception and the metadata is returned as
\* collected: fmt_data and bwf_data set when the file holds such a chunk, and
\* data_size_bytes the size of its last data chunk.
C26_WalkerTerminates ==
    /\ <>(pc \in {"returned", "raised"})
    /\ [][(pc = "walk" /\ pc' # "returned") => offset' >= offset + CHUNK_HDR_LEN]_vars
    /\ [][(pc = "walk" /\ offset + CHUNK_HDR_LEN > FileLen(wav))
              => (pc' = "returned" /\ raised' = None /\ walked' = walked)]_vars
    /\ [](pc = "returned" =>
              /\ raised = None
              /\ walked = _read_wav_file(wav)
              /\ (walked.fmt_data # None) = HasChunk(wav.chunks, "fmt ")
              /\ (walked.bwf_data # None) = HasChunk(wav.chunks, "bext")
              /\ walked.data_size_bytes = LastDataSize(wav.chunks, Len(wav.chunks)))

\* The loop has walked MaxChunks chunks, one of odd size and an empty one,
\* and ended where seven bytes were left.
C26_Witness ==
    /\ pc = "returned"
    /\ Len(wav.chunks) = MaxChunks
    /\ wav.trailing = 7
    /\ HasChunk(wav.chunks, "LIST")
    /\ \E i \in DOMAIN wav.chunks : wav.chunks[i].size = 0
    /\ offset = FileLen(wav)

\* ------------------------------------------------------------------------
\* Frame indexes and timecodes.

\* C29: for a frame index n >= 0, _frame_idx_to_tc gives a timecode with
\* mm < 60, ss < 60 and ff < int_fps, and _tc_to_frame_idx gives n back for
\* it; a negative frame index raises instead.
C29_FrameIdxInverse ==
    /\ pc \in {"tc", "back"} =>
           /\ ~idx.neg
           /\ PyLess(tc.mm, PyFromInt(_MINS_PER_HR))
           /\ PyLess(tc.ss, PyFromInt(_SECS_PER_MIN))
           /\ PyLess(tc.ff, PyFromInt(int_fps(fr)))
    /\ pc = "back" => idx_back = idx
    /\ pc = "raised" =>
           /\ idx.neg
           /\ raised = Exception("Negative frame indexes are not supported")
=============================================================================
